---- MODULE Spec2Model ----
(***************************************************************************)
(* Model of the contact-book API (Express routes under routes/ and the     *)
(* Next.js handlers under pages/api) over a relational store.              *)
(*                                                                         *)
(* The store is modelled as three tables without storage-level             *)
(* constraints (the repository defines no schema): committed rows are      *)
(* shared, every open transaction keeps a private write set that becomes   *)
(* visible at COMMIT (read committed), and a statement that writes a row   *)
(* another open transaction has written waits for that transaction.        *)
(***************************************************************************)
EXTENDS Integers, Sequences, FiniteSets, TLC

(* ---------------------------------------------------------------- bounds *)
MaxContacts == 2
MaxPhones == 3
MaxReqs == 2
MaxSeqReqs == 3
MaxPrimaryReqs == 3
MaxCreateReqs == 2
MaxRaceReqs == 3
MaxCascadeReqs == 3
MaxReaderReqs == 4
MaxFaultReqs == 2
MaxTxCalls == 3
MaxListReqs == 3
MaxUserReqs == 2
MaxRegisterReqs == 3

Procs == {1, 2}
Users == {1, 2}
\* The users rows of the two principals: name and age.
Profiles == (1 :> [name |-> "ann", age |-> 30]) @@ (2 :> [name |-> "bob", age |-> 40])
ContactIds == 1..MaxContacts
PhoneIds == 1..MaxPhones

(* ------------------------------------------------------- request payload *)
\* A JSON value of the is_primary field as it reaches the handler.  The
\* validator isBoolean() accepts the booleans and the strings "true",
\* "false", "1", "0" and leaves the value as it was sent.
Undefined == "undefined"
BoolValues == {"bool:true", "bool:false"}
StringValues == {"str:true", "str:false", "str:1", "str:0"}
IsPrimaryValues == {Undefined} \cup BoolValues \cup StringValues

\* A guard that lets every value through.
Truthy_Always(v) == TRUE

\* JavaScript truthiness: every non-empty string is truthy.
Truthy(v) == v \notin {Undefined, "bool:false"}

\* JavaScript v === true.
StrictTrue(v) == v = "bool:true"

\* The sanitizer toBoolean(): '0', 'false' and '' give false, the rest true;
\* optional() skips an absent field.
ToBoolean(v) ==
  IF v = Undefined THEN Undefined
  ELSE IF v \in {"bool:false", "str:false", "str:0"} THEN "bool:false"
  ELSE "bool:true"

\* The value PostgreSQL stores in a boolean column for a query parameter.
PgBool(v) == v \in {"bool:true", "str:true", "str:1"}

\* phone.is_primary || false
OrFalse(v) == IF Truthy(v) THEN v ELSE "bool:false"

\* const { phone_type = 'mobile' } = req.body
OrMobile(t) == IF t = Undefined THEN "mobile" ELSE t

(* ------------------------------------------------------------------ state *)
VARIABLES
  users,      \* committed users table: set of ids
  profiles,   \* committed users table: id -> [name, age]
  contacts,   \* committed contacts table: id -> [user_id, name, is_emergency]
  phones,     \* committed contact_phone_numbers: id -> [contact_id, is_primary, phone_type]
  nextCid,    \* contacts_id_seq
  nextPid,    \* contact_phone_numbers_id_seq
  pc,         \* per request process: position in its handler
  req,        \* per request process: the request being served
  loc,        \* per request process: the handler's local variables
  tx,         \* per request process: write set of its open transaction
  resp,       \* per request process: the response sent
  nreq,       \* requests started so far
  owner       \* history: the user_id each contact id was inserted with

dbVars == <<users, contacts, phones, profiles>>
seqVars == <<nextCid, nextPid>>
vars == <<users, profiles, contacts, phones, nextCid, nextPid, pc, req, loc, tx, resp, nreq, owner>>

EmptyFn == [x \in {} |-> 0]

Restrict(f, S) == [x \in S |-> f[x]]

NoTx == [ph |-> EmptyFn, phDel |-> {}, ct |-> EmptyFn, ctDel |-> {}, usDel |-> {}]

NoResp == [status |-> 0, kind |-> "none", cid |-> 0]

\* contact_id, i, result and err are the handler's locals; guard, wrote and
\* wroteUsers are history: what the ownership rule prescribed on the committed
\* rows the handler's first lookup read, and the contacts (their row or their
\* phone numbers) and users whose committed rows this request has written.
\* acquired and released count the pool.connect() calls that resolved and the
\* client.release() calls of a db.transaction call followed statement by
\* statement.
\* seen and during are history too: the primary rows among the phone numbers
\* a list query returned, and whether another request's transaction had
\* uncommitted writes when the query ran.
\* issued is history: what a db.transaction call followed statement by
\* statement has sent on its connection, and how its callback ended.
\* pagination is req.pagination; rows is the rows of the handler's list
\* query, total the COUNT(*) it read, out the contactsWithPhones array
\* (index -> contact and phone_numbers), pages the page count it answered.
\* snapshot is history: the ids of all rows that matched the WHERE clause
\* of the windowed query when it ran.
\* again is history: the status of the second res.status(...).json(...) call
\* made for the request, 0 while there has been at most one.
NoLoc == [contact_id |-> 0, i |-> 0, result |-> NoResp, err |-> "none",
          guard |-> "none", wrote |-> {}, wroteUsers |-> {},
          seen |-> {}, during |-> FALSE, acquired |-> 0, released |-> 0,
          issued |-> <<>>,
          pagination |-> [page |-> 0, limit |-> 0, offset |-> 0],
          rows |-> <<>>, total |-> 0, out |-> <<>>, pages |-> 0,
          snapshot |-> {}, again |-> 0]

\* page and limit are the query-string parameters of the list request.
NoReq == [op |-> "none", principal |-> 0, id |-> 0, user_id |-> 0, contact_id |-> 0,
          is_primary |-> Undefined, phone_type |-> Undefined,
          name |-> Undefined, phone_numbers |-> <<>>,
          is_emergency |-> Undefined, page |-> Undefined, limit |-> Undefined,
          age |-> Undefined]

Idle(p) == pc[p] \in {"idle", "done"}

\* A response with the row (or rows) of contact c as its data.
Data(status, kind, c) == [status |-> status, kind |-> kind, cid |-> c]
Status(status) == [status |-> status, kind |-> "none", cid |-> 0]

(* ------------------------------------------------------------- the store *)
\* What a statement on process p's connection sees: the committed rows
\* overlaid with p's own uncommitted writes.
PhoneView(p) ==
  LET f == tx[p].ph @@ phones
  IN  Restrict(f, DOMAIN f \ tx[p].phDel)

ContactView(p) ==
  LET f == tx[p].ct @@ contacts
  IN  Restrict(f, DOMAIN f \ tx[p].ctDel)

UserView(p) == users \ tx[p].usDel

\* Rows of committed tables that p's open transaction has written (row locks).
PhoneLocks(p) == (DOMAIN tx[p].ph \cap DOMAIN phones) \cup tx[p].phDel
ContactLocks(p) == (DOMAIN tx[p].ct \cap DOMAIN contacts) \cup tx[p].ctDel
UserLocks(p) == tx[p].usDel

PhonesFree(p, ids) == \A q \in Procs \ {p} : ids \cap PhoneLocks(q) = {}
ContactsFree(p, ids) == \A q \in Procs \ {p} : ids \cap ContactLocks(q) = {}
UsersFree(p, ids) == \A q \in Procs \ {p} : ids \cap UserLocks(q) = {}

\* COMMIT: the write set becomes the committed state.
CommittedPhones(p) == PhoneView(p)
CommittedContacts(p) == ContactView(p)
CommittedUsers(p) == UserView(p)

\* The clearing UPDATE left out.
Unset_NoClear(p, ids) == tx[p].ph

\* UPDATE contact_phone_numbers SET is_primary = false WHERE id IN ids
Unset(p, ids) ==
  LET view == PhoneView(p)
  IN  [i \in ids |-> [view[i] EXCEPT !.is_primary = FALSE]] @@ tx[p].ph

\* COALESCE($n, column)
Coalesce(v, old) == IF v = Undefined THEN old ELSE v

\* The rows of every open transaction laid over the committed rows: what a
\* query would return if uncommitted writes were visible to it.
PoolRows_Dirty(p) ==
  LET f == tx[1].ph @@ tx[2].ph @@ phones
  IN  Restrict(f, DOMAIN f \ (tx[1].phDel \cup tx[2].phDel))

\* What db.query returns to request p: the query runs on a pool connection
\* of its own and sees the committed rows only.
PoolRows(p) == phones

\* Another request has a transaction with uncommitted writes.
WriteInProgress(p) == \E q \in Procs \ {p} : tx[q] # NoTx

PhonesOf(view, c) == {i \in DOMAIN view : view[i].contact_id = c}
PrimariesOf(view, c) == {i \in PhonesOf(view, c) : view[i].is_primary}

\* Position of a text value in ascending order (NULL sorts last).
Rank(t) ==
  CASE t = "a" -> 1
    [] t = "b" -> 2
    [] t = "home" -> 3
    [] t = "mobile" -> 4
    [] t = "work" -> 5
    [] t = "x" -> 6
    [] OTHER -> 7

\* The results a SELECT * may have for the rows ids of a table: every
\* arrangement of them that its ORDER BY permits, <<x, y>> \in le telling
\* that row x may come before row y.  Rows that compare equal, and all rows
\* when there is no ORDER BY, come in an order the store chooses.
Select(view, ids, le) ==
  LET n == Cardinality(ids)
      arrangements ==
        {s \in [1..n -> ids] :
           /\ \A i, j \in 1..n : i # j => s[i] # s[j]
           /\ \A i, j \in 1..n : i < j => <<s[i], s[j]>> \in le}
  IN  {[i \in 1..n |-> [id |-> s[i]] @@ view[s[i]]] : s \in arrangements}

\* The same query with ORDER BY name ASC alone.
SelectContacts_ByName(view, u) ==
  LET ids == {c \in DOMAIN view : view[c].user_id = u}
  IN  Select(view, ids,
             {xy \in ids \X ids :
                Rank(view[xy[1]].name) <= Rank(view[xy[2]].name)})

\* SELECT * FROM contacts WHERE user_id = $1
\* ORDER BY is_emergency DESC, name ASC
SelectContacts(view, u) ==
  LET ids == {c \in DOMAIN view : view[c].user_id = u}
  IN  Select(view, ids,
             {xy \in ids \X ids :
                LET x == view[xy[1]]
                    y == view[xy[2]]
                IN  \/ x.is_emergency /\ ~y.is_emergency
                    \/ /\ x.is_emergency = y.is_emergency
                       /\ Rank(x.name) <= Rank(y.name)})

\* The same query with ORDER BY id.
SelectPhonesOrdered_ById(view, c) ==
  LET ids == PhonesOf(view, c)
  IN  Select(view, ids, {xy \in ids \X ids : xy[1] <= xy[2]})

\* SELECT * FROM contact_phone_numbers WHERE contact_id = $1
\* ORDER BY is_primary DESC, phone_type ASC
SelectPhonesOrdered(view, c) ==
  LET ids == PhonesOf(view, c)
  IN  Select(view, ids,
             {xy \in ids \X ids :
                LET x == view[xy[1]]
                    y == view[xy[2]]
                IN  \/ x.is_primary /\ ~y.is_primary
                    \/ /\ x.is_primary = y.is_primary
                       /\ Rank(x.phone_type) <= Rank(y.phone_type)})

\* SELECT * FROM contact_phone_numbers WHERE contact_id = $1
SelectPhones(view, c) ==
  LET ids == PhonesOf(view, c)
  IN  Select(view, ids, ids \X ids)

\* LIMIT $2 alone.
LimitOffset_NoOffset(s, limit, offset) ==
  SubSeq(s, 1, IF limit < Len(s) THEN limit ELSE Len(s))

\* LIMIT $2 OFFSET $3 on the ordered rows s.
LimitOffset(s, limit, offset) ==
  SubSeq(s, offset + 1, IF offset + limit < Len(s) THEN offset + limit ELSE Len(s))

\* parseInt of a query-string parameter: NaN for an absent or non-numeric
\* one.
ParseInt(v) ==
  CASE v = "str:-1" -> [nan |-> FALSE, n |-> -1]
    [] v = "str:0" -> [nan |-> FALSE, n |-> 0]
    [] v = "str:1" -> [nan |-> FALSE, n |-> 1]
    [] v = "str:2" -> [nan |-> FALSE, n |-> 2]
    [] v = "str:3" -> [nan |-> FALSE, n |-> 3]
    [] OTHER -> [nan |-> TRUE, n |-> 0]

\* paginate with offset: page * limit.
Paginate_NextOffset(r) ==
  LET OrDefault(v, d) == IF v.nan \/ v.n = 0 THEN d ELSE v.n
      page == OrDefault(ParseInt(r.page), 1)
      limit == OrDefault(ParseInt(r.limit), 10)
  IN  [page |-> page, limit |-> limit, offset |-> page * limit]

\* lib/utils.js paginate: parseInt(...) || 1, parseInt(...) || 10 (NaN and
\* 0 are the falsy numbers), offset: (page - 1) * limit.
Paginate(r) ==
  LET OrDefault(v, d) == IF v.nan \/ v.n = 0 THEN d ELSE v.n
      page == OrDefault(ParseInt(r.page), 1)
      limit == OrDefault(ParseInt(r.limit), 10)
  IN  [page |-> page, limit |-> limit, offset |-> (page - 1) * limit]

(* ------------------------------------------------------ ownership rule *)
\* Spec 4.1 on the committed rows: NotFound if the id resolves to no row,
\* Forbidden if it resolves and the owner differs, Allowed otherwise.
AuthorizeContact(u, id) ==
  IF id \notin DOMAIN contacts THEN "NotFound"
  ELSE IF contacts[id].user_id # u THEN "Forbidden"
  ELSE "Allowed"

\* For a phone number the owner is the owner of its parent contact; a phone
\* number whose parent is gone has no owner.
AuthorizePhone(u, id) ==
  IF id \notin DOMAIN phones THEN "NotFound"
  ELSE IF phones[id].contact_id \notin DOMAIN contacts THEN "NoOwner"
  ELSE IF contacts[phones[id].contact_id].user_id # u THEN "Forbidden"
  ELSE "Allowed"

\* The contacts and users a transaction's write set touches.
WrittenContacts(p) ==
  {tx[p].ph[i].contact_id : i \in DOMAIN tx[p].ph}
    \cup {phones[i].contact_id : i \in tx[p].phDel \cap DOMAIN phones}
    \cup DOMAIN tx[p].ct
    \cup (tx[p].ctDel \cap DOMAIN contacts)

WrittenUsers(p) == tx[p].usDel \cap users

(* --------------------------------------------------- lib/db.js transaction *)
\* COMMIT and release: the callback returned.  A handler that answers after
\* db.transaction resolves sends loc.result now.
Transaction_Commit(p) ==
  /\ pc[p] = "commit"
  /\ phones' = CommittedPhones(p)
  /\ contacts' = CommittedContacts(p)
  /\ users' = CommittedUsers(p)
  /\ profiles' = [u \in CommittedUsers(p) |-> profiles[u]]
  /\ tx' = [tx EXCEPT ![p] = NoTx]
  /\ resp' = [resp EXCEPT ![p] =
               IF loc[p].result.status # 0 THEN loc[p].result ELSE @]
  /\ loc' = [loc EXCEPT ![p].wrote = @ \cup WrittenContacts(p),
                         ![p].wroteUsers = @ \cup WrittenUsers(p)]
  /\ pc' = [pc EXCEPT ![p] = "done"]
  /\ UNCHANGED <<seqVars, req, nreq, owner>>

\* The .catch(...) that follows db.transaction in the pages/api handlers
\* answers 404 for the handler's own not-found error; every other error
\* reaches the outer catch (pages/api) or errorHandler (routes) and is a 500.
ErrorResponse(p) ==
  IF loc[p].err \in {"Phone number not found", "Contact not found", "User not found"}
  THEN Status(404) ELSE Status(500)

\* Statements that take effect one by one, with nothing to undo them.
Transaction_Rollback_Keep(p) ==
  /\ pc[p] = "rollback"
  /\ phones' = CommittedPhones(p)
  /\ contacts' = CommittedContacts(p)
  /\ users' = CommittedUsers(p)
  /\ profiles' = [u \in CommittedUsers(p) |-> profiles[u]]
  /\ tx' = [tx EXCEPT ![p] = NoTx]
  /\ resp' = [resp EXCEPT ![p] = IF @.status # 0 THEN @ ELSE ErrorResponse(p)]
  /\ pc' = [pc EXCEPT ![p] = "done"]
  /\ UNCHANGED <<seqVars, req, loc, nreq, owner>>

\* ROLLBACK and release: the callback threw.  The write set is discarded and
\* the error is answered; the client keeps the response it has already been
\* sent.  errorHandler calls apiResponse without looking at res.headersSent,
\* and a pages/api handler whose .catch has answered 404 goes on to the
\* success response that follows db.transaction.
Transaction_Rollback(p) ==
  /\ pc[p] = "rollback"
  /\ tx' = [tx EXCEPT ![p] = NoTx]
  /\ resp' = [resp EXCEPT ![p] = IF @.status # 0 THEN @ ELSE ErrorResponse(p)]
  /\ loc' = [loc EXCEPT ![p].again =
               IF resp[p].status # 0 THEN ErrorResponse(p).status
               ELSE IF ErrorResponse(p).status = 404
                       /\ req[p].op \in {"api.contacts.delete", "api.users.delete"}
                    THEN 204
               ELSE IF ErrorResponse(p).status = 404 /\ req[p].op = "api.phone.put"
                    THEN 200
               ELSE 0]
  /\ pc' = [pc EXCEPT ![p] = "done"]
  /\ UNCHANGED <<dbVars, seqVars, req, nreq, owner>>

\* The positions at which the callback of db.transaction awaits
\* client.query.
StatementLabels ==
  {"phones.post:unset", "phones.post:insert", "phones.put:unset", "phones.put:update",
   "contacts.post:contact", "contacts.post:phone", "contacts.post:select",
   "contacts.delete:phones", "contacts.delete:contact",
   "users.delete:contacts", "users.delete:user",
   "api.phone.post:unset", "api.phone.post:insert",
   "api.phone.put:select", "api.phone.put:unset", "api.phone.put:update",
   "api.contacts.post:contact", "api.contacts.post:phone", "api.contacts.post:select",
   "api.contacts.delete:phones", "api.contacts.delete:contact",
   "api.users.delete:contacts", "api.users.delete:user"}

\* client.query rejects (the store fails the statement): the callback
\* throws and db.transaction's catch takes over.
Statement_Fails(p) ==
  /\ pc[p] \in StatementLabels
  /\ loc' = [loc EXCEPT ![p].err = "store failure"]
  /\ pc' = [pc EXCEPT ![p] = "rollback"]
  /\ UNCHANGED <<dbVars, seqVars, req, tx, resp, nreq, owner>>

\* client.query('COMMIT') rejects: db.transaction's catch takes over.
Transaction_CommitFails(p) ==
  /\ pc[p] = "commit"
  /\ loc' = [loc EXCEPT ![p].err = "store failure"]
  /\ pc' = [pc EXCEPT ![p] = "rollback"]
  /\ UNCHANGED <<dbVars, seqVars, req, tx, resp, nreq, owner>>

(* ------------------------------------- routes/phoneNumbers.js router.post *)
PhoneNumbersPost_Check(p) ==
  /\ pc[p] = "phones.post:check"
  /\ LET c == req[p].contact_id
     IN  IF c \notin DOMAIN contacts
         THEN /\ resp' = [resp EXCEPT ![p] = Status(404)]
              /\ pc' = [pc EXCEPT ![p] = "done"]
         ELSE IF contacts[c].user_id # req[p].principal
         THEN /\ resp' = [resp EXCEPT ![p] = Status(403)]
              /\ pc' = [pc EXCEPT ![p] = "done"]
         ELSE /\ resp' = resp
              /\ pc' = [pc EXCEPT ![p] =
                          IF Truthy(req[p].is_primary)
                          THEN "phones.post:unset" ELSE "phones.post:insert"]
  /\ loc' = [loc EXCEPT ![p].guard = AuthorizeContact(req[p].principal, req[p].contact_id)]
  /\ UNCHANGED <<dbVars, seqVars, req, tx, nreq, owner>>

PhoneNumbersPost_Unset(p) ==
  /\ pc[p] = "phones.post:unset"
  /\ LET ids == PhonesOf(PhoneView(p), req[p].contact_id)
     IN  /\ PhonesFree(p, ids)
         /\ tx' = [tx EXCEPT ![p].ph = Unset(p, ids)]
  /\ pc' = [pc EXCEPT ![p] = "phones.post:insert"]
  /\ UNCHANGED <<dbVars, seqVars, req, loc, resp, nreq, owner>>

PhoneNumbersPost_Insert(p) ==
  /\ pc[p] = "phones.post:insert"
  /\ nextPid <= MaxPhones
  /\ LET row == [contact_id |-> req[p].contact_id,
                 is_primary |-> PgBool(req[p].is_primary),
                 phone_type |-> OrMobile(req[p].phone_type)]
     IN  tx' = [tx EXCEPT ![p].ph = (nextPid :> row) @@ @]
  /\ nextPid' = nextPid + 1
  /\ resp' = [resp EXCEPT ![p] = Data(201, "phone", req[p].contact_id)]
  /\ pc' = [pc EXCEPT ![p] = "commit"]
  /\ UNCHANGED <<dbVars, nextCid, req, loc, nreq, owner>>

(* -------------------------------------- routes/phoneNumbers.js router.put *)
PhoneNumbersPut_Check(p) ==
  /\ pc[p] = "phones.put:check"
  /\ LET id == req[p].id
         found == id \in DOMAIN phones /\ phones[id].contact_id \in DOMAIN contacts
     IN  IF ~found
         THEN /\ resp' = [resp EXCEPT ![p] = Status(404)]
              /\ pc' = [pc EXCEPT ![p] = "done"]
              /\ loc' = [loc EXCEPT ![p].guard = AuthorizePhone(req[p].principal, id)]
         ELSE IF contacts[phones[id].contact_id].user_id # req[p].principal
         THEN /\ resp' = [resp EXCEPT ![p] = Status(403)]
              /\ pc' = [pc EXCEPT ![p] = "done"]
              /\ loc' = [loc EXCEPT ![p].guard = AuthorizePhone(req[p].principal, id)]
         ELSE /\ resp' = resp
              /\ loc' = [loc EXCEPT ![p].contact_id = phones[id].contact_id,
                              ![p].guard = AuthorizePhone(req[p].principal, id)]
              /\ pc' = [pc EXCEPT ![p] =
                          IF StrictTrue(req[p].is_primary)
                          THEN "phones.put:unset" ELSE "phones.put:update"]
  /\ UNCHANGED <<dbVars, seqVars, req, tx, nreq, owner>>

PhoneNumbersPut_Unset(p) ==
  /\ pc[p] = "phones.put:unset"
  /\ LET ids == PhonesOf(PhoneView(p), loc[p].contact_id) \ {req[p].id}
     IN  /\ PhonesFree(p, ids)
         /\ tx' = [tx EXCEPT ![p].ph = Unset(p, ids)]
  /\ pc' = [pc EXCEPT ![p] = "phones.put:update"]
  /\ UNCHANGED <<dbVars, seqVars, req, loc, resp, nreq, owner>>

\* UPDATE ... SET phone_type = COALESCE($2, phone_type),
\*                is_primary = COALESCE($3, is_primary) WHERE id = $4
UpdatePhoneRow(row, r) ==
  [row EXCEPT !.phone_type = Coalesce(r.phone_type, @),
              !.is_primary = IF r.is_primary = Undefined THEN @
                             ELSE PgBool(r.is_primary)]

PhoneNumbersPut_Update(p) ==
  /\ pc[p] = "phones.put:update"
  /\ LET id == req[p].id
         view == PhoneView(p)
     IN  /\ PhonesFree(p, {id})
         /\ IF id \in DOMAIN view
            THEN /\ tx' = [tx EXCEPT ![p].ph = (id :> UpdatePhoneRow(view[id], req[p])) @@ @]
                 /\ resp' = [resp EXCEPT ![p] = Data(200, "phone", view[id].contact_id)]
            ELSE /\ tx' = tx
                 /\ resp' = [resp EXCEPT ![p] = Status(200)]
  /\ pc' = [pc EXCEPT ![p] = "commit"]
  /\ UNCHANGED <<dbVars, seqVars, req, loc, nreq, owner>>
(* ------------------------------- pages/api/phone-number/index.js case POST *)
\* is_primary has passed isBoolean().toBoolean(); there is no ownership or
\* existence check of contact_id.
ApiPhonePost_Unset(p) ==
  /\ pc[p] = "api.phone.post:unset"
  /\ LET ids == PhonesOf(PhoneView(p), req[p].contact_id)
     IN  /\ PhonesFree(p, ids)
         /\ tx' = [tx EXCEPT ![p].ph = Unset(p, ids)]
  /\ pc' = [pc EXCEPT ![p] = "api.phone.post:insert"]
  /\ UNCHANGED <<dbVars, seqVars, req, loc, resp, nreq, owner>>

ApiPhonePost_Insert(p) ==
  /\ pc[p] = "api.phone.post:insert"
  /\ nextPid <= MaxPhones
  /\ LET row == [contact_id |-> req[p].contact_id,
                 is_primary |-> PgBool(ToBoolean(req[p].is_primary)),
                 phone_type |-> OrMobile(req[p].phone_type)]
     IN  tx' = [tx EXCEPT ![p].ph = (nextPid :> row) @@ @]
  /\ nextPid' = nextPid + 1
  /\ loc' = [loc EXCEPT ![p].result = Data(201, "phone", req[p].contact_id)]
  /\ pc' = [pc EXCEPT ![p] = "commit"]
  /\ UNCHANGED <<dbVars, nextCid, req, resp, nreq, owner>>

(* -------------------------------- pages/api/phone-number/index.js case PUT *)
\* SELECT contact_id FROM contact_phone_numbers WHERE id = $1, inside the
\* transaction, only when is_primary === true.
ApiPhonePut_Select(p) ==
  /\ pc[p] = "api.phone.put:select"
  /\ LET id == req[p].id
         view == PhoneView(p)
     IN  IF id \in DOMAIN view
         THEN /\ loc' = [loc EXCEPT ![p].contact_id = view[id].contact_id]
              /\ pc' = [pc EXCEPT ![p] = "api.phone.put:unset"]
         ELSE /\ loc' = loc
              /\ pc' = [pc EXCEPT ![p] = "api.phone.put:update"]
  /\ UNCHANGED <<dbVars, seqVars, req, tx, resp, nreq, owner>>

ApiPhonePut_Unset(p) ==
  /\ pc[p] = "api.phone.put:unset"
  /\ LET ids == PhonesOf(PhoneView(p), loc[p].contact_id) \ {req[p].id}
     IN  /\ PhonesFree(p, ids)
         /\ tx' = [tx EXCEPT ![p].ph = Unset(p, ids)]
  /\ pc' = [pc EXCEPT ![p] = "api.phone.put:update"]
  /\ UNCHANGED <<dbVars, seqVars, req, loc, resp, nreq, owner>>

ApiPhonePut_Update(p) ==
  /\ pc[p] = "api.phone.put:update"
  /\ LET id == req[p].id
         view == PhoneView(p)
         body == [req[p] EXCEPT !.is_primary = ToBoolean(@)]
     IN  /\ PhonesFree(p, {id})
         /\ IF id \in DOMAIN view
            THEN /\ tx' = [tx EXCEPT ![p].ph = (id :> UpdatePhoneRow(view[id], body)) @@ @]
                 /\ loc' = [loc EXCEPT ![p].result = Data(200, "phone", view[id].contact_id)]
                 /\ pc' = [pc EXCEPT ![p] = "commit"]
            ELSE /\ tx' = tx
                 /\ loc' = [loc EXCEPT ![p].err = "Phone number not found"]
                 /\ pc' = [pc EXCEPT ![p] = "rollback"]
  /\ UNCHANGED <<dbVars, seqVars, req, resp, nreq, owner>>

(* ------------------------------------------ routes/contacts.js router.get *)
\* GET /:id: SELECT * FROM contacts WHERE id = $1, then the ownership test.
ContactsGet_Read(p) ==
  /\ pc[p] = "contacts.get:read"
  /\ LET id == req[p].id
     IN  IF id \notin DOMAIN contacts
         THEN /\ resp' = [resp EXCEPT ![p] = Status(404)]
              /\ pc' = [pc EXCEPT ![p] = "done"]
         ELSE IF contacts[id].user_id # req[p].principal
         THEN /\ resp' = [resp EXCEPT ![p] = Status(403)]
              /\ pc' = [pc EXCEPT ![p] = "done"]
         ELSE /\ resp' = resp
              /\ pc' = [pc EXCEPT ![p] = "contacts.get:phones"]
  /\ loc' = [loc EXCEPT ![p].guard = AuthorizeContact(req[p].principal, req[p].id)]
  /\ UNCHANGED <<dbVars, seqVars, req, tx, nreq, owner>>

\* SELECT * FROM contact_phone_numbers WHERE contact_id = $1
ContactsGet_Phones(p) ==
  /\ pc[p] = "contacts.get:phones"
  /\ \E s \in SelectPhones(PoolRows(p), req[p].id) :
       loc' = [loc EXCEPT ![p].rows = s]
  /\ resp' = [resp EXCEPT ![p] = Data(200, "contact", req[p].id)]
  /\ pc' = [pc EXCEPT ![p] = "done"]
  /\ UNCHANGED <<dbVars, seqVars, req, tx, nreq, owner>>

(* ------------------------------------- routes/contacts.js router.get('/') *)
\* paginate, then const user_id = req.query.user_id || req.user.userId and
\* the 403 test.
ContactsList_Check(p) ==
  /\ pc[p] = "contacts.list:check"
  /\ loc' = [loc EXCEPT ![p].pagination = Paginate(req[p])]
  /\ LET user_id == IF req[p].user_id # 0 THEN req[p].user_id ELSE req[p].principal
     IN  IF user_id # req[p].principal
         THEN /\ resp' = [resp EXCEPT ![p] = Status(403)]
              /\ pc' = [pc EXCEPT ![p] = "done"]
         ELSE /\ resp' = resp
              /\ pc' = [pc EXCEPT ![p] = "contacts.list:contacts"]
  /\ UNCHANGED <<dbVars, seqVars, req, tx, nreq, owner>>

\* SELECT ... ORDER BY is_emergency DESC, name ASC LIMIT $2 OFFSET $3.  The
\* store rejects a negative LIMIT or OFFSET and errorHandler answers 500.
ContactsList_Contacts(p) ==
  /\ pc[p] = "contacts.list:contacts"
  /\ LET pg == loc[p].pagination
         u == req[p].principal
     IN  IF pg.limit < 0 \/ pg.offset < 0
         THEN /\ loc' = [loc EXCEPT ![p].err = "store failure"]
              /\ resp' = [resp EXCEPT ![p] = Status(500)]
              /\ pc' = [pc EXCEPT ![p] = "done"]
         ELSE /\ \E s \in SelectContacts(contacts, u) :
                   loc' = [loc EXCEPT
                            ![p].rows = LimitOffset(s, pg.limit, pg.offset),
                            ![p].snapshot = {s[i].id : i \in DOMAIN s}]
              /\ resp' = resp
              /\ pc' = [pc EXCEPT ![p] = "contacts.list:count"]
  /\ UNCHANGED <<dbVars, seqVars, req, tx, nreq, owner>>

\* SELECT COUNT(*) FROM contacts WHERE user_id = $1.  Promise.all of no
\* fetches resolves at once and the response follows.
ContactsList_Count(p) ==
  /\ pc[p] = "contacts.list:count"
  /\ LET total == Cardinality({c \in DOMAIN contacts :
                                 contacts[c].user_id = req[p].principal})
         limit == loc[p].pagination.limit
     IN  IF Len(loc[p].rows) = 0
         THEN /\ loc' = [loc EXCEPT ![p].total = total,
                                    ![p].pages = (total + limit - 1) \div limit]
              /\ resp' = [resp EXCEPT ![p] = Data(200, "contacts", 0)]
              /\ pc' = [pc EXCEPT ![p] = "done"]
         ELSE /\ loc' = [loc EXCEPT ![p].total = total]
              /\ resp' = resp
              /\ pc' = [pc EXCEPT ![p] = "contacts.list:phones"]
  /\ UNCHANGED <<dbVars, seqVars, req, tx, nreq, owner>>

\* A contactsWithPhones built by pushing each fetch's result when it
\* completes.
ContactsList_Phones_Push(p) ==
  /\ pc[p] = "contacts.list:phones"
  /\ \E i \in {j \in DOMAIN loc[p].rows :
                 \A k \in DOMAIN loc[p].out :
                   loc[p].out[k].contact.id # loc[p].rows[j].id} :
     \E ph \in SelectPhones(PoolRows(p), loc[p].rows[i].id) :
       LET out == Append(loc[p].out,
                         [contact |-> loc[p].rows[i], phone_numbers |-> ph])
           limit == loc[p].pagination.limit
       IN  IF Len(out) = Len(loc[p].rows)
           THEN /\ loc' = [loc EXCEPT ![p].out = out,
                             ![p].pages = (loc[p].total + limit - 1) \div limit]
                /\ resp' = [resp EXCEPT ![p] = Data(200, "contacts", 0)]
                /\ pc' = [pc EXCEPT ![p] = "done"]
           ELSE /\ loc' = [loc EXCEPT ![p].out = out]
                /\ UNCHANGED <<resp, pc>>
  /\ UNCHANGED <<dbVars, seqVars, req, tx, nreq, owner>>

\* Promise.all(contacts.rows.map(async contact => ...)): the fetches run
\* concurrently and complete in any order; the result of the fetch for
\* contacts.rows[i] becomes element i of contactsWithPhones.  The response
\* is sent when the last one has completed.
ContactsList_Phones(p) ==
  /\ pc[p] = "contacts.list:phones"
  /\ \E i \in DOMAIN loc[p].rows \ DOMAIN loc[p].out :
     \E ph \in SelectPhones(PoolRows(p), loc[p].rows[i].id) :
       LET out == (i :> [contact |-> loc[p].rows[i], phone_numbers |-> ph])
                    @@ loc[p].out
           limit == loc[p].pagination.limit
       IN  IF DOMAIN out = DOMAIN loc[p].rows
           THEN /\ loc' = [loc EXCEPT ![p].out = out,
                             ![p].pages = (loc[p].total + limit - 1) \div limit]
                /\ resp' = [resp EXCEPT ![p] = Data(200, "contacts", 0)]
                /\ pc' = [pc EXCEPT ![p] = "done"]
           ELSE /\ loc' = [loc EXCEPT ![p].out = out]
                /\ UNCHANGED <<resp, pc>>
  /\ UNCHANGED <<dbVars, seqVars, req, tx, nreq, owner>>

(* ----------------------------------------- routes/contacts.js router.post *)
\* const { is_emergency = false } = req.body
ContactRow(u, r) ==
  [user_id |-> u, name |-> r.name,
   is_emergency |-> IF r.is_emergency = Undefined THEN FALSE
                    ELSE PgBool(r.is_emergency)]

\* INSERT INTO contact_phone_numbers ... [contact.id, ..., phone.phone_type ||
\* 'mobile', phone.is_primary || false]
PayloadPhoneRow(c, v) ==
  [contact_id |-> c, is_primary |-> PgBool(OrFalse(v)), phone_type |-> "mobile"]

ContactsPost_InsertContact(p) ==
  /\ pc[p] = "contacts.post:contact"
  /\ nextCid <= MaxContacts
  /\ tx' = [tx EXCEPT ![p].ct = (nextCid :> ContactRow(req[p].principal, req[p])) @@ @]
  /\ owner' = [owner EXCEPT ![nextCid] = req[p].principal]
  /\ loc' = [loc EXCEPT ![p].contact_id = nextCid, ![p].i = 1]
  /\ nextCid' = nextCid + 1
  /\ pc' = [pc EXCEPT ![p] =
              IF Len(req[p].phone_numbers) > 0
              THEN "contacts.post:phone" ELSE "contacts.post:select"]
  /\ UNCHANGED <<dbVars, nextPid, req, resp, nreq>>

ContactsPost_InsertPhone(p) ==
  /\ pc[p] = "contacts.post:phone"
  /\ nextPid <= MaxPhones
  /\ LET row == PayloadPhoneRow(loc[p].contact_id, req[p].phone_numbers[loc[p].i])
     IN  tx' = [tx EXCEPT ![p].ph = (nextPid :> row) @@ @]
  /\ nextPid' = nextPid + 1
  /\ loc' = [loc EXCEPT ![p].i = @ + 1]
  /\ pc' = [pc EXCEPT ![p] =
              IF loc[p].i < Len(req[p].phone_numbers)
              THEN "contacts.post:phone" ELSE "contacts.post:select"]
  /\ UNCHANGED <<dbVars, nextCid, req, resp, nreq, owner>>

\* client.query('SELECT * FROM contact_phone_numbers WHERE contact_id = $1')
ContactsPost_Select(p) ==
  /\ pc[p] = "contacts.post:select"
  /\ \E s \in SelectPhones(PhoneView(p), loc[p].contact_id) :
       loc' = [loc EXCEPT ![p].rows = s]
  /\ resp' = [resp EXCEPT ![p] = Data(201, "contact", loc[p].contact_id)]
  /\ pc' = [pc EXCEPT ![p] = "commit"]
  /\ UNCHANGED <<dbVars, seqVars, req, tx, nreq, owner>>

(* ------------------------------------------ routes/contacts.js router.put *)
ContactsPut_Check(p) ==
  /\ pc[p] = "contacts.put:check"
  /\ LET id == req[p].id
     IN  IF id \notin DOMAIN contacts
         THEN /\ resp' = [resp EXCEPT ![p] = Status(404)]
              /\ pc' = [pc EXCEPT ![p] = "done"]
         ELSE IF contacts[id].user_id # req[p].principal
         THEN /\ resp' = [resp EXCEPT ![p] = Status(403)]
              /\ pc' = [pc EXCEPT ![p] = "done"]
         ELSE /\ resp' = resp
              /\ pc' = [pc EXCEPT ![p] = "contacts.put:update"]
  /\ loc' = [loc EXCEPT ![p].guard = AuthorizeContact(req[p].principal, req[p].id)]
  /\ UNCHANGED <<dbVars, seqVars, req, tx, nreq, owner>>

\* UPDATE contacts SET name = COALESCE($1, name), ... WHERE id = $5
UpdateContactRow(row, r) ==
  [row EXCEPT !.name = Coalesce(r.name, @),
              !.is_emergency = IF r.is_emergency = Undefined THEN @
                               ELSE PgBool(r.is_emergency)]

\* db.query: one statement in a transaction of its own.
ContactsPut_Update(p) ==
  /\ pc[p] = "contacts.put:update"
  /\ LET id == req[p].id
     IN  /\ ContactsFree(p, {id})
         /\ IF id \in DOMAIN contacts
            THEN /\ contacts' = [contacts EXCEPT ![id] = UpdateContactRow(@, req[p])]
                 /\ loc' = [loc EXCEPT ![p].wrote = @ \cup {id}]
                 /\ resp' = [resp EXCEPT ![p] = Data(200, "contact", id)]
            ELSE /\ contacts' = contacts
                 /\ loc' = loc
                 /\ resp' = [resp EXCEPT ![p] = Status(200)]
  /\ pc' = [pc EXCEPT ![p] = "done"]
  /\ UNCHANGED <<users, profiles, phones, seqVars, req, tx, nreq, owner>>

(* --------------------------------------- routes/contacts.js router.delete *)
ContactsDelete_Check(p) ==
  /\ pc[p] = "contacts.delete:check"
  /\ LET id == req[p].id
     IN  IF id \notin DOMAIN contacts
         THEN /\ resp' = [resp EXCEPT ![p] = Status(404)]
              /\ pc' = [pc EXCEPT ![p] = "done"]
         ELSE IF contacts[id].user_id # req[p].principal
         THEN /\ resp' = [resp EXCEPT ![p] = Status(403)]
              /\ pc' = [pc EXCEPT ![p] = "done"]
         ELSE /\ resp' = resp
              /\ pc' = [pc EXCEPT ![p] = "contacts.delete:phones"]
  /\ loc' = [loc EXCEPT ![p].guard = AuthorizeContact(req[p].principal, req[p].id)]
  /\ UNCHANGED <<dbVars, seqVars, req, tx, nreq, owner>>

\* A delete of the contact row alone.
ContactsDelete_Phones_Skip(p) ==
  /\ pc[p] = "contacts.delete:phones"
  /\ pc' = [pc EXCEPT ![p] = "contacts.delete:contact"]
  /\ UNCHANGED <<dbVars, seqVars, req, loc, tx, resp, nreq, owner>>

\* DELETE FROM contact_phone_numbers WHERE contact_id = $1
ContactsDelete_Phones(p) ==
  /\ pc[p] = "contacts.delete:phones"
  /\ LET ids == PhonesOf(PhoneView(p), req[p].id)
     IN  /\ PhonesFree(p, ids)
         /\ tx' = [tx EXCEPT ![p].phDel = @ \cup ids]
  /\ pc' = [pc EXCEPT ![p] = "contacts.delete:contact"]
  /\ UNCHANGED <<dbVars, seqVars, req, loc, resp, nreq, owner>>

\* DELETE FROM contacts WHERE id = $1; the row count is not looked at.
ContactsDelete_Contact(p) ==
  /\ pc[p] = "contacts.delete:contact"
  /\ LET ids == {req[p].id} \cap DOMAIN ContactView(p)
     IN  /\ ContactsFree(p, ids)
         /\ tx' = [tx EXCEPT ![p].ctDel = @ \cup ids]
  /\ resp' = [resp EXCEPT ![p] = Status(204)]
  /\ pc' = [pc EXCEPT ![p] = "commit"]
  /\ UNCHANGED <<dbVars, seqVars, req, loc, nreq, owner>>

(* -------------------------- routes/phoneNumbers.js router.get('/contact') *)
PhoneNumbersList_Check(p) ==
  /\ pc[p] = "phones.list:check"
  /\ LET c == req[p].contact_id
     IN  IF c \notin DOMAIN contacts
         THEN /\ resp' = [resp EXCEPT ![p] = Status(404)]
              /\ pc' = [pc EXCEPT ![p] = "done"]
         ELSE IF contacts[c].user_id # req[p].principal
         THEN /\ resp' = [resp EXCEPT ![p] = Status(403)]
              /\ pc' = [pc EXCEPT ![p] = "done"]
         ELSE /\ resp' = resp
              /\ pc' = [pc EXCEPT ![p] = "phones.list:read"]
  /\ loc' = [loc EXCEPT ![p].guard = AuthorizeContact(req[p].principal, req[p].contact_id)]
  /\ UNCHANGED <<dbVars, seqVars, req, tx, nreq, owner>>

PhoneNumbersList_Read(p) ==
  /\ pc[p] = "phones.list:read"
  /\ resp' = [resp EXCEPT ![p] = Data(200, "phones", req[p].contact_id)]
  /\ \E s \in SelectPhonesOrdered(PoolRows(p), req[p].contact_id) :
       loc' = [loc EXCEPT ![p].rows = s,
                          ![p].seen = PrimariesOf(PoolRows(p), req[p].contact_id),
                          ![p].during = WriteInProgress(p)]
  /\ pc' = [pc EXCEPT ![p] = "done"]
  /\ UNCHANGED <<dbVars, seqVars, req, tx, nreq, owner>>

(* ------------------------------ routes/phoneNumbers.js router.get('/:id') *)
\* SELECT cpn.* FROM contact_phone_numbers cpn JOIN contacts c ...
PhoneNumbersGet_Read(p) ==
  /\ pc[p] = "phones.get:read"
  /\ LET id == req[p].id
         found == id \in DOMAIN phones /\ phones[id].contact_id \in DOMAIN contacts
     IN  IF ~found
         THEN /\ resp' = [resp EXCEPT ![p] = Status(404)]
              /\ pc' = [pc EXCEPT ![p] = "done"]
              /\ loc' = [loc EXCEPT ![p].guard = AuthorizePhone(req[p].principal, id)]
         ELSE /\ resp' = resp
              /\ loc' = [loc EXCEPT ![p].contact_id = phones[id].contact_id,
                              ![p].guard = AuthorizePhone(req[p].principal, id)]
              /\ pc' = [pc EXCEPT ![p] = "phones.get:check"]
  /\ UNCHANGED <<dbVars, seqVars, req, tx, nreq, owner>>

\* SELECT user_id FROM contacts WHERE id = $1; contactCheck.rows[0].user_id
\* throws a TypeError when the contact is gone, which errorHandler answers.
PhoneNumbersGet_Check(p) ==
  /\ pc[p] = "phones.get:check"
  /\ LET c == loc[p].contact_id
     IN  resp' = [resp EXCEPT ![p] =
                   IF c \notin DOMAIN contacts THEN Status(500)
                   ELSE IF contacts[c].user_id # req[p].principal THEN Status(403)
                   ELSE Data(200, "phone", c)]
  /\ pc' = [pc EXCEPT ![p] = "done"]
  /\ UNCHANGED <<dbVars, seqVars, req, loc, tx, nreq, owner>>

(* ----------------------------------- routes/phoneNumbers.js router.delete *)
PhoneNumbersDelete_Check(p) ==
  /\ pc[p] = "phones.delete:check"
  /\ LET id == req[p].id
         found == id \in DOMAIN phones /\ phones[id].contact_id \in DOMAIN contacts
     IN  IF ~found
         THEN /\ resp' = [resp EXCEPT ![p] = Status(404)]
              /\ pc' = [pc EXCEPT ![p] = "done"]
         ELSE IF contacts[phones[id].contact_id].user_id # req[p].principal
         THEN /\ resp' = [resp EXCEPT ![p] = Status(403)]
              /\ pc' = [pc EXCEPT ![p] = "done"]
         ELSE /\ resp' = resp
              /\ pc' = [pc EXCEPT ![p] = "phones.delete:delete"]
  /\ loc' = [loc EXCEPT ![p].guard = AuthorizePhone(req[p].principal, req[p].id)]
  /\ UNCHANGED <<dbVars, seqVars, req, tx, nreq, owner>>

PhoneNumbersDelete_Delete(p) ==
  /\ pc[p] = "phones.delete:delete"
  /\ LET ids == {req[p].id} \cap DOMAIN phones
     IN  /\ PhonesFree(p, ids)
         /\ phones' = Restrict(phones, DOMAIN phones \ ids)
         /\ loc' = [loc EXCEPT ![p].wrote = @ \cup {phones[i].contact_id : i \in ids}]
  /\ resp' = [resp EXCEPT ![p] = Status(204)]
  /\ pc' = [pc EXCEPT ![p] = "done"]
  /\ UNCHANGED <<users, profiles, contacts, seqVars, req, tx, nreq, owner>>

(* ------------------------------------------- routes/users.js router.delete *)
\* if (parseInt(id) !== req.user.userId) return 403
UsersDelete_Check(p) ==
  /\ pc[p] = "users.delete:check"
  /\ IF req[p].id # req[p].principal
     THEN /\ resp' = [resp EXCEPT ![p] = Status(403)]
          /\ pc' = [pc EXCEPT ![p] = "done"]
     ELSE /\ resp' = resp
          /\ pc' = [pc EXCEPT ![p] = "users.delete:contacts"]
  /\ UNCHANGED <<dbVars, seqVars, req, loc, tx, nreq, owner>>

\* DELETE FROM contacts WHERE user_id = $1
UsersDelete_Contacts(p) ==
  /\ pc[p] = "users.delete:contacts"
  /\ LET view == ContactView(p)
         ids == {c \in DOMAIN view : view[c].user_id = req[p].id}
     IN  /\ ContactsFree(p, ids)
         /\ tx' = [tx EXCEPT ![p].ctDel = @ \cup ids]
  /\ pc' = [pc EXCEPT ![p] = "users.delete:user"]
  /\ UNCHANGED <<dbVars, seqVars, req, loc, resp, nreq, owner>>

\* DELETE FROM users WHERE id = $1 RETURNING id; on zero rows the callback
\* answers 404 and returns, so the transaction commits.
UsersDelete_User(p) ==
  /\ pc[p] = "users.delete:user"
  /\ LET ids == {req[p].id} \cap UserView(p)
     IN  /\ UsersFree(p, ids)
         /\ tx' = [tx EXCEPT ![p].usDel = @ \cup ids]
         /\ resp' = [resp EXCEPT ![p] = IF ids = {} THEN Status(404) ELSE Status(204)]
  /\ pc' = [pc EXCEPT ![p] = "commit"]
  /\ UNCHANGED <<dbVars, seqVars, req, loc, nreq, owner>>

(* ---------------------------------- pages/api/users handler, case DELETE *)
\* DELETE FROM contacts WHERE user_id = $1; no authentication, no phone
\* numbers deleted ("which will cascade ... if set up properly in DB").
ApiUsersDelete_Contacts(p) ==
  /\ pc[p] = "api.users.delete:contacts"
  /\ LET view == ContactView(p)
         ids == {c \in DOMAIN view : view[c].user_id = req[p].id}
     IN  /\ ContactsFree(p, ids)
         /\ tx' = [tx EXCEPT ![p].ctDel = @ \cup ids]
  /\ pc' = [pc EXCEPT ![p] = "api.users.delete:user"]
  /\ UNCHANGED <<dbVars, seqVars, req, loc, resp, nreq, owner>>

\* DELETE FROM users WHERE id = $1 RETURNING id; zero rows throw
\* 'User not found'.
ApiUsersDelete_User(p) ==
  /\ pc[p] = "api.users.delete:user"
  /\ LET ids == {req[p].id} \cap UserView(p)
     IN  /\ UsersFree(p, ids)
         /\ tx' = [tx EXCEPT ![p].usDel = @ \cup ids]
         /\ IF ids = {}
            THEN /\ loc' = [loc EXCEPT ![p].err = "User not found"]
                 /\ pc' = [pc EXCEPT ![p] = "rollback"]
            ELSE /\ loc' = [loc EXCEPT ![p].result = Status(204)]
                 /\ pc' = [pc EXCEPT ![p] = "commit"]
  /\ UNCHANGED <<dbVars, seqVars, req, resp, nreq, owner>>

(* --------------------------------- pages/api/contacts handler, case POST *)
\* user_id is taken from the request body; the response is sent after
\* db.transaction has resolved.
ApiContactsPost_InsertContact(p) ==
  /\ pc[p] = "api.contacts.post:contact"
  /\ nextCid <= MaxContacts
  /\ tx' = [tx EXCEPT ![p].ct = (nextCid :> ContactRow(req[p].user_id, req[p])) @@ @]
  /\ owner' = [owner EXCEPT ![nextCid] = req[p].user_id]
  /\ loc' = [loc EXCEPT ![p].contact_id = nextCid, ![p].i = 1]
  /\ nextCid' = nextCid + 1
  /\ pc' = [pc EXCEPT ![p] =
              IF Len(req[p].phone_numbers) > 0
              THEN "api.contacts.post:phone" ELSE "api.contacts.post:select"]
  /\ UNCHANGED <<dbVars, nextPid, req, resp, nreq>>

ApiContactsPost_InsertPhone(p) ==
  /\ pc[p] = "api.contacts.post:phone"
  /\ nextPid <= MaxPhones
  /\ LET row == PayloadPhoneRow(loc[p].contact_id, req[p].phone_numbers[loc[p].i])
     IN  tx' = [tx EXCEPT ![p].ph = (nextPid :> row) @@ @]
  /\ nextPid' = nextPid + 1
  /\ loc' = [loc EXCEPT ![p].i = @ + 1]
  /\ pc' = [pc EXCEPT ![p] =
              IF loc[p].i < Len(req[p].phone_numbers)
              THEN "api.contacts.post:phone" ELSE "api.contacts.post:select"]
  /\ UNCHANGED <<dbVars, nextCid, req, resp, nreq, owner>>

ApiContactsPost_Select(p) ==
  /\ pc[p] = "api.contacts.post:select"
  /\ \E s \in SelectPhones(PhoneView(p), loc[p].contact_id) :
       loc' = [loc EXCEPT ![p].rows = s,
                          ![p].result = Data(201, "contact", loc[p].contact_id)]
  /\ pc' = [pc EXCEPT ![p] = "commit"]
  /\ UNCHANGED <<dbVars, seqVars, req, tx, resp, nreq, owner>>

(* ---------------------------------- pages/api/contacts handler, case GET *)
\* GET ?id=: no principal is looked at.
ApiContactsGet_Read(p) ==
  /\ pc[p] = "api.contacts.get:read"
  /\ IF req[p].id \notin DOMAIN contacts
     THEN /\ resp' = [resp EXCEPT ![p] = Status(404)]
          /\ pc' = [pc EXCEPT ![p] = "done"]
     ELSE /\ resp' = resp
          /\ pc' = [pc EXCEPT ![p] = "api.contacts.get:phones"]
  /\ UNCHANGED <<dbVars, seqVars, req, loc, tx, nreq, owner>>

ApiContactsGet_Phones(p) ==
  /\ pc[p] = "api.contacts.get:phones"
  /\ \E s \in SelectPhones(PoolRows(p), req[p].id) :
       loc' = [loc EXCEPT ![p].rows = s]
  /\ resp' = [resp EXCEPT ![p] = Data(200, "contact", req[p].id)]
  /\ pc' = [pc EXCEPT ![p] = "done"]
  /\ UNCHANGED <<dbVars, seqVars, req, tx, nreq, owner>>

\* GET ?user_id=: SELECT ... ORDER BY is_emergency DESC, name ASC, with no
\* LIMIT; no principal is looked at.
ApiContactsList_Contacts(p) ==
  /\ pc[p] = "api.contacts.list:contacts"
  /\ \E s \in SelectContacts(contacts, req[p].user_id) :
       /\ loc' = [loc EXCEPT ![p].rows = s,
                              ![p].snapshot = {s[i].id : i \in DOMAIN s}]
       /\ IF Len(s) = 0
          THEN /\ resp' = [resp EXCEPT ![p] = Data(200, "contacts", 0)]
               /\ pc' = [pc EXCEPT ![p] = "done"]
          ELSE /\ resp' = resp
               /\ pc' = [pc EXCEPT ![p] = "api.contacts.list:phones"]
  /\ UNCHANGED <<dbVars, seqVars, req, tx, nreq, owner>>

\* Promise.all(contacts.rows.map(...)), as in routes/contacts.js.
ApiContactsList_Phones(p) ==
  /\ pc[p] = "api.contacts.list:phones"
  /\ \E i \in DOMAIN loc[p].rows \ DOMAIN loc[p].out :
     \E ph \in SelectPhones(PoolRows(p), loc[p].rows[i].id) :
       LET out == (i :> [contact |-> loc[p].rows[i], phone_numbers |-> ph])
                    @@ loc[p].out
       IN  /\ loc' = [loc EXCEPT ![p].out = out]
           /\ IF DOMAIN out = DOMAIN loc[p].rows
              THEN /\ resp' = [resp EXCEPT ![p] = Data(200, "contacts", 0)]
                   /\ pc' = [pc EXCEPT ![p] = "done"]
              ELSE UNCHANGED <<resp, pc>>
  /\ UNCHANGED <<dbVars, seqVars, req, tx, nreq, owner>>

(* ---------------------------------- pages/api/contacts handler, case PUT *)
ApiContactsPut_Update(p) ==
  /\ pc[p] = "api.contacts.put:update"
  /\ LET id == req[p].id
     IN  /\ ContactsFree(p, {id})
         /\ IF id \in DOMAIN contacts
            THEN /\ contacts' = [contacts EXCEPT ![id] =
                                UpdateContactRow(@, [req[p] EXCEPT !.is_emergency = ToBoolean(@)])]
                 /\ loc' = [loc EXCEPT ![p].wrote = @ \cup {id}]
                 /\ resp' = [resp EXCEPT ![p] = Data(200, "contact", id)]
            ELSE /\ contacts' = contacts
                 /\ loc' = loc
                 /\ resp' = [resp EXCEPT ![p] = Status(404)]
  /\ pc' = [pc EXCEPT ![p] = "done"]
  /\ UNCHANGED <<users, profiles, phones, seqVars, req, tx, nreq, owner>>

(* ------------------------------- pages/api/contacts handler, case DELETE *)
ApiContactsDelete_Phones(p) ==
  /\ pc[p] = "api.contacts.delete:phones"
  /\ LET ids == PhonesOf(PhoneView(p), req[p].id)
     IN  /\ PhonesFree(p, ids)
         /\ tx' = [tx EXCEPT ![p].phDel = @ \cup ids]
  /\ pc' = [pc EXCEPT ![p] = "api.contacts.delete:contact"]
  /\ UNCHANGED <<dbVars, seqVars, req, loc, resp, nreq, owner>>

\* DELETE FROM contacts WHERE id = $1 RETURNING id; zero rows throw
\* 'Contact not found'.
ApiContactsDelete_Contact(p) ==
  /\ pc[p] = "api.contacts.delete:contact"
  /\ LET ids == {req[p].id} \cap DOMAIN ContactView(p)
     IN  /\ ContactsFree(p, ids)
         /\ tx' = [tx EXCEPT ![p].ctDel = @ \cup ids]
         /\ IF ids = {}
            THEN /\ loc' = [loc EXCEPT ![p].err = "Contact not found"]
                 /\ pc' = [pc EXCEPT ![p] = "rollback"]
            ELSE /\ loc' = [loc EXCEPT ![p].result = Status(204)]
                 /\ pc' = [pc EXCEPT ![p] = "commit"]
  /\ UNCHANGED <<dbVars, seqVars, req, resp, nreq, owner>>

(* -------------------------- pages/api/phone-number/index.js case GET *)
\* GET ?id=
ApiPhoneGet_Read(p) ==
  /\ pc[p] = "api.phone.get:read"
  /\ resp' = [resp EXCEPT ![p] =
               IF req[p].id \in DOMAIN phones
               THEN Data(200, "phone", phones[req[p].id].contact_id)
               ELSE Status(404)]
  /\ pc' = [pc EXCEPT ![p] = "done"]
  /\ UNCHANGED <<dbVars, seqVars, req, loc, tx, nreq, owner>>

\* GET ?contact_id=
ApiPhoneList_Read(p) ==
  /\ pc[p] = "api.phone.list:read"
  /\ resp' = [resp EXCEPT ![p] = Data(200, "phones", req[p].contact_id)]
  /\ \E s \in SelectPhonesOrdered(PoolRows(p), req[p].contact_id) :
       loc' = [loc EXCEPT ![p].rows = s,
                          ![p].seen = PrimariesOf(PoolRows(p), req[p].contact_id),
                          ![p].during = WriteInProgress(p)]
  /\ pc' = [pc EXCEPT ![p] = "done"]
  /\ UNCHANGED <<dbVars, seqVars, req, tx, nreq, owner>>

(* ----------------------- pages/api/phone-number/index.js case DELETE *)
ApiPhoneDelete_Delete(p) ==
  /\ pc[p] = "api.phone.delete:delete"
  /\ LET ids == {req[p].id} \cap DOMAIN phones
     IN  /\ PhonesFree(p, ids)
         /\ phones' = Restrict(phones, DOMAIN phones \ ids)
         /\ loc' = [loc EXCEPT ![p].wrote = @ \cup {phones[i].contact_id : i \in ids}]
         /\ resp' = [resp EXCEPT ![p] = IF ids = {} THEN Status(404) ELSE Status(204)]
  /\ pc' = [pc EXCEPT ![p] = "done"]
  /\ UNCHANGED <<users, profiles, contacts, seqVars, req, tx, nreq, owner>>

(* ---------------------------------------------- routes/users.js router.put *)
\* The SET list built from the payload: if (name) ..., if (age !== undefined)
\* ...; the columns mac, phone_number and image follow the pattern of name,
\* and updated_at is not modelled.  A column left out of the list keeps its
\* value.
UpdateUserRow_Overwrite(row, r) ==
  [name |-> r.name, age |-> IF r.age = Undefined THEN 0 ELSE ParseInt(r.age).n]

UpdateUserRow(row, r) ==
  [row EXCEPT !.name = IF Truthy(r.name) THEN r.name ELSE @,
              !.age = IF r.age # Undefined THEN ParseInt(r.age).n ELSE @]

\* if (parseInt(id) !== req.user.userId) return 403; 400 when no column is
\* to be updated; UPDATE users SET ... WHERE id = $n RETURNING ... as one
\* db.query; 404 on zero rows.
UsersPut_Update(p) ==
  /\ pc[p] = "users.put:update"
  /\ LET id == req[p].id
     IN  IF id # req[p].principal
         THEN /\ resp' = [resp EXCEPT ![p] = Status(403)]
              /\ UNCHANGED <<profiles, loc>>
         ELSE IF ~Truthy(req[p].name) /\ req[p].age = Undefined
         THEN /\ resp' = [resp EXCEPT ![p] = Status(400)]
              /\ UNCHANGED <<profiles, loc>>
         ELSE /\ UsersFree(p, {id})
              /\ IF id \in users
                 THEN /\ profiles' = [profiles EXCEPT ![id] = UpdateUserRow(@, req[p])]
                      /\ loc' = [loc EXCEPT ![p].wroteUsers = @ \cup {id}]
                      /\ resp' = [resp EXCEPT ![p] = Data(200, "user", id)]
                 ELSE /\ resp' = [resp EXCEPT ![p] = Status(404)]
                      /\ UNCHANGED <<profiles, loc>>
  /\ pc' = [pc EXCEPT ![p] = "done"]
  /\ UNCHANGED <<users, contacts, phones, seqVars, req, tx, nreq, owner>>

(* ------------------------------------- pages/api/users handler, case PUT *)
\* The same dynamic UPDATE with no authentication before it.
ApiUsersPut_Update(p) ==
  /\ pc[p] = "api.users.put:update"
  /\ LET id == req[p].id
     IN  IF ~Truthy(req[p].name) /\ req[p].age = Undefined
         THEN /\ resp' = [resp EXCEPT ![p] = Status(400)]
              /\ UNCHANGED <<profiles, loc>>
         ELSE /\ UsersFree(p, {id})
              /\ IF id \in users
                 THEN /\ profiles' = [profiles EXCEPT ![id] = UpdateUserRow(@, req[p])]
                      /\ loc' = [loc EXCEPT ![p].wroteUsers = @ \cup {id}]
                      /\ resp' = [resp EXCEPT ![p] = Data(200, "user", id)]
                 ELSE /\ resp' = [resp EXCEPT ![p] = Status(404)]
                      /\ UNCHANGED <<profiles, loc>>
  /\ pc' = [pc EXCEPT ![p] = "done"]
  /\ UNCHANGED <<users, contacts, phones, seqVars, req, tx, nreq, owner>>

(* --------------------------------------- lib/auth.js router.post('/register') *)
\* SELECT id FROM users WHERE name = $1 on a pool connection; a row found
\* answers 400 'User already exists'.
AuthRegister_Check(p) ==
  /\ pc[p] = "auth.register:check"
  /\ IF \E u \in users : profiles[u].name = req[p].name
     THEN /\ resp' = [resp EXCEPT ![p] = Status(400)]
          /\ pc' = [pc EXCEPT ![p] = "done"]
     ELSE /\ resp' = resp
          /\ pc' = [pc EXCEPT ![p] = "auth.register:insert"]
  /\ UNCHANGED <<dbVars, seqVars, req, loc, tx, nreq, owner>>

\* INSERT INTO users (name, ..., age, ...) VALUES (...) RETURNING ..., a
\* second db.query after bcrypt.hash; the id is the next value of the
\* users sequence (no user above the two principals is ever deleted).
AuthRegister_Insert(p) ==
  /\ pc[p] = "auth.register:insert"
  /\ LET id == 1 + CHOOSE m \in users \cup Users : \A u \in users \cup Users : u <= m
         row == [name |-> req[p].name,
                 age |-> IF req[p].age = Undefined THEN 0 ELSE ParseInt(req[p].age).n]
     IN  /\ users' = users \cup {id}
         /\ profiles' = (id :> row) @@ profiles
         /\ loc' = [loc EXCEPT ![p].wroteUsers = @ \cup {id}]
         /\ resp' = [resp EXCEPT ![p] = Data(201, "user", id)]
  /\ pc' = [pc EXCEPT ![p] = "done"]
  /\ UNCHANGED <<contacts, phones, seqVars, req, tx, nreq, owner>>

(* ------------------------------------ pages/api/users handler, case POST *)
\* The INSERT alone: no query looks for the name first.
ApiUsersRegister_Insert(p) ==
  /\ pc[p] = "api.users.register:insert"
  /\ LET id == 1 + CHOOSE m \in users \cup Users : \A u \in users \cup Users : u <= m
         row == [name |-> req[p].name,
                 age |-> IF req[p].age = Undefined THEN 0 ELSE ParseInt(req[p].age).n]
     IN  /\ users' = users \cup {id}
         /\ profiles' = (id :> row) @@ profiles
         /\ loc' = [loc EXCEPT ![p].wroteUsers = @ \cup {id}]
         /\ resp' = [resp EXCEPT ![p] = Data(201, "user", id)]
  /\ pc' = [pc EXCEPT ![p] = "done"]
  /\ UNCHANGED <<contacts, phones, seqVars, req, tx, nreq, owner>>

(* ------------------------------------------------------------- requests *)
\* Where a handler starts once validation has passed.
FirstStep(r) ==
  CASE r.op = "phones.post" -> "phones.post:check"
    [] r.op = "phones.put" -> "phones.put:check"
    [] r.op = "api.phone.post" ->
         IF Truthy(ToBoolean(r.is_primary))
         THEN "api.phone.post:unset" ELSE "api.phone.post:insert"
    [] r.op = "api.phone.put" ->
         IF StrictTrue(ToBoolean(r.is_primary))
         THEN "api.phone.put:select" ELSE "api.phone.put:update"
    [] r.op = "phones.list" -> "phones.list:check"
    [] r.op = "phones.get" -> "phones.get:read"
    [] r.op = "phones.delete" -> "phones.delete:check"
    [] r.op = "contacts.get" -> "contacts.get:read"
    [] r.op = "contacts.list" -> "contacts.list:check"
    [] r.op = "api.contacts.list" -> "api.contacts.list:contacts"
    [] r.op = "contacts.post" -> "contacts.post:contact"
    [] r.op = "contacts.put" -> "contacts.put:check"
    [] r.op = "contacts.delete" -> "contacts.delete:check"
    [] r.op = "users.delete" -> "users.delete:check"
    [] r.op = "api.contacts.post" -> "api.contacts.post:contact"
    [] r.op = "api.contacts.get" -> "api.contacts.get:read"
    [] r.op = "api.contacts.put" -> "api.contacts.put:update"
    [] r.op = "api.contacts.delete" -> "api.contacts.delete:phones"
    [] r.op = "api.phone.get" -> "api.phone.get:read"
    [] r.op = "api.phone.list" -> "api.phone.list:read"
    [] r.op = "api.phone.delete" -> "api.phone.delete:delete"
    [] r.op = "api.users.delete" -> "api.users.delete:contacts"
    [] r.op = "users.put" -> "users.put:update"
    [] r.op = "api.users.put" -> "api.users.put:update"
    [] r.op = "auth.register" -> "auth.register:check"
    [] r.op = "api.users.register" -> "api.users.register:insert"
    [] r.op = "db.transaction" -> "tx:connect"

\* Rows a request may insert (the id sequences are capped by the bounds).
PhonesNeeded(r) ==
  CASE r.op \in {"phones.post", "api.phone.post"} -> 1
    [] r.op \in {"contacts.post", "api.contacts.post"} -> Len(r.phone_numbers)
    [] OTHER -> 0

ContactsNeeded(r) == IF r.op \in {"contacts.post", "api.contacts.post"} THEN 1 ELSE 0

RECURSIVE SumOver(_, _)
SumOver(S, f) ==
  IF S = {} THEN 0
  ELSE LET x == CHOOSE y \in S : TRUE IN f[x] + SumOver(S \ {x}, f)

Busy == {q \in Procs : ~Idle(q)}

\* A request arrives at process p.
Start(p, r) ==
  /\ Idle(p)
  /\ (nextPid - 1) + PhonesNeeded(r)
        + SumOver(Busy, [q \in Procs |-> PhonesNeeded(req[q])]) <= MaxPhones
  /\ (nextCid - 1) + ContactsNeeded(r)
        + SumOver(Busy, [q \in Procs |-> ContactsNeeded(req[q])]) <= MaxContacts
  /\ req' = [req EXCEPT ![p] = r]
  /\ loc' = [loc EXCEPT ![p] = NoLoc]
  /\ resp' = [resp EXCEPT ![p] = NoResp]
  /\ pc' = [pc EXCEPT ![p] = FirstStep(r)]
  /\ nreq' = nreq + 1
  /\ UNCHANGED <<dbVars, seqVars, tx, owner>>

PhoneRequest(op, u, id, c, v, t) ==
  [NoReq EXCEPT !.op = op, !.principal = u, !.id = id, !.contact_id = c,
                !.is_primary = v, !.phone_type = t]

(* ----------------------------------------------------------- initial state *)
\* The store after two registrations: users 1 and 2, no contacts.
InitProcs ==
  /\ pc = [p \in Procs |-> "idle"]
  /\ req = [p \in Procs |-> NoReq]
  /\ loc = [p \in Procs |-> NoLoc]
  /\ tx = [p \in Procs |-> NoTx]
  /\ resp = [p \in Procs |-> NoResp]
  /\ nreq = 0

\* The store after the two registrations.
InitEmpty ==
  /\ users = Users
  /\ profiles = Profiles
  /\ contacts = EmptyFn
  /\ phones = EmptyFn
  /\ nextCid = 1
  /\ nextPid = 1
  /\ owner = [c \in ContactIds |-> 0]
  /\ InitProcs

\* The store after user 1 has created contact 1 without phone numbers.
InitOneContact ==
  /\ users = Users
  /\ profiles = Profiles
  /\ contacts = (1 :> [user_id |-> 1, name |-> "a", is_emergency |-> FALSE])
  /\ phones = EmptyFn
  /\ nextCid = 2
  /\ nextPid = 1
  /\ owner = [c \in ContactIds |-> IF c = 1 THEN 1 ELSE 0]
  /\ InitProcs

\* The store after user 1 has created contact 1 and then two phone numbers.
InitTwoPhones ==
  /\ users = Users
  /\ profiles = Profiles
  /\ contacts = (1 :> [user_id |-> 1, name |-> "a", is_emergency |-> FALSE])
  /\ phones = (1 :> [contact_id |-> 1, is_primary |-> FALSE, phone_type |-> "mobile"])
              @@ (2 :> [contact_id |-> 1, is_primary |-> FALSE, phone_type |-> "mobile"])
  /\ nextCid = 2
  /\ nextPid = 3
  /\ owner = [c \in ContactIds |-> IF c = 1 THEN 1 ELSE 0]
  /\ InitProcs

\* The store after user 1 has created contact 1 with one primary phone number.
InitContactWithPhone ==
  /\ users = Users
  /\ profiles = Profiles
  /\ contacts = (1 :> [user_id |-> 1, name |-> "a", is_emergency |-> FALSE])
  /\ phones = (1 :> [contact_id |-> 1, is_primary |-> TRUE, phone_type |-> "mobile"])
  /\ nextCid = 2
  /\ nextPid = 2
  /\ owner = [c \in ContactIds |-> IF c = 1 THEN 1 ELSE 0]
  /\ InitProcs

(* ------------------------------------------------------ deadlock detection *)
\* The committed rows the statement process p is about to run would write.
WantsPhones(p) ==
  CASE pc[p] \in {"phones.post:unset", "api.phone.post:unset"} ->
         PhonesOf(PhoneView(p), req[p].contact_id)
    [] pc[p] \in {"phones.put:unset", "api.phone.put:unset"} ->
         PhonesOf(PhoneView(p), loc[p].contact_id) \ {req[p].id}
    [] pc[p] \in {"phones.put:update", "api.phone.put:update"} -> {req[p].id}
    [] pc[p] \in {"contacts.delete:phones", "api.contacts.delete:phones"} ->
         PhonesOf(PhoneView(p), req[p].id)
    [] OTHER -> {}

WaitsFor(p, q) == p # q /\ WantsPhones(p) \cap PhoneLocks(q) # {}

\* Two transactions wait for each other's row locks: the store aborts the
\* statement of one of them with an error, and its callback throws.
Transaction_Deadlock(p) ==
  /\ \E q \in Procs : WaitsFor(p, q) /\ WaitsFor(q, p)
  /\ loc' = [loc EXCEPT ![p].err = "deadlock detected"]
  /\ pc' = [pc EXCEPT ![p] = "rollback"]
  /\ UNCHANGED <<dbVars, seqVars, req, tx, resp, nreq, owner>>

(* ------------------------------------------- phone numbers, one at a time *)
\* Phone-number creates and updates by the owner, each request run to its
\* end before the next starts (a single request process).
SeqPhoneRequests ==
  {PhoneRequest(op, 1, id, 1, v, Undefined) :
     op \in {"phones.post", "phones.put", "api.phone.post", "api.phone.put"},
     id \in PhoneIds, v \in IsPrimaryValues}

NextSeqPhone ==
  \/ \E r \in SeqPhoneRequests : nreq < MaxSeqReqs /\ Start(1, r)
  \/ PhoneNumbersPost_Check(1)
  \/ PhoneNumbersPost_Unset(1)
  \/ PhoneNumbersPost_Insert(1)
  \/ PhoneNumbersPut_Check(1)
  \/ PhoneNumbersPut_Unset(1)
  \/ PhoneNumbersPut_Update(1)
  \/ ApiPhonePost_Unset(1)
  \/ ApiPhonePost_Insert(1)
  \/ ApiPhonePut_Select(1)
  \/ ApiPhonePut_Unset(1)
  \/ ApiPhonePut_Update(1)
  \/ Transaction_Commit(1)
  \/ Transaction_Rollback(1)

SpecSeqPhone == InitOneContact /\ [][NextSeqPhone]_vars

(* ------------------------------------- concurrent primary phone numbers *)
\* Two request processes, each creating or updating a phone number of
\* contact 1 with is_primary = true (a JSON boolean), on behalf of the owner.
PrimaryRequests ==
  {PhoneRequest(op, 1, id, 1, "bool:true", Undefined) :
     op \in {"phones.post", "phones.put", "api.phone.post", "api.phone.put"},
     id \in PhoneIds}

NextPrimary ==
  \E p \in Procs :
    \/ \E r \in PrimaryRequests : nreq < MaxPrimaryReqs /\ Start(p, r)
    \/ PhoneNumbersPost_Check(p)
    \/ PhoneNumbersPost_Unset(p)
    \/ PhoneNumbersPost_Insert(p)
    \/ PhoneNumbersPut_Check(p)
    \/ PhoneNumbersPut_Unset(p)
    \/ PhoneNumbersPut_Update(p)
    \/ ApiPhonePost_Unset(p)
    \/ ApiPhonePost_Insert(p)
    \/ ApiPhonePut_Select(p)
    \/ ApiPhonePut_Unset(p)
    \/ ApiPhonePut_Update(p)
    \/ Transaction_Commit(p)
    \/ Transaction_Rollback(p)
    \/ Transaction_Deadlock(p)

SpecPrimary == InitTwoPhones /\ [][NextPrimary]_vars

(* ------------------------------------------------- the whole interface *)
ContactRequest(op, u, id, n, pn) ==
  [NoReq EXCEPT !.op = op, !.principal = u, !.id = id, !.user_id = u,
                !.name = n, !.phone_numbers = pn]

\* Requests of either user against contact 1, phone number 1 and the users.
Requests ==
  UNION {
    {ContactRequest(op, u, 1, Undefined, <<>>) :
       op \in {"contacts.get", "contacts.delete", "api.contacts.get", "api.contacts.delete"}}
    \cup {ContactRequest(op, u, 1, "x", <<>>) : op \in {"contacts.put", "api.contacts.put"}}
    \cup {ContactRequest(op, u, 0, "b", pn) :
           op \in {"contacts.post", "api.contacts.post"}, pn \in {<<>>, <<"bool:true">>}}
    \cup {PhoneRequest(op, u, 1, 1, Undefined, Undefined) :
           op \in {"phones.list", "phones.get", "phones.delete",
                   "api.phone.list", "api.phone.get", "api.phone.delete"}}
    \cup {PhoneRequest(op, u, 1, 1, v, Undefined) :
           op \in {"phones.post", "phones.put", "api.phone.post", "api.phone.put"},
           v \in {Undefined, "bool:true"}}
    \cup {ContactRequest("users.delete", u, id, Undefined, <<>>) : id \in Users}
    : u \in Users}

Next ==
  \E p \in Procs :
    \/ \E r \in Requests : nreq < MaxReqs /\ Start(p, r)
    \/ ContactsGet_Read(p)
    \/ ContactsGet_Phones(p)
    \/ ContactsPost_InsertContact(p)
    \/ ContactsPost_InsertPhone(p)
    \/ ContactsPost_Select(p)
    \/ ContactsPut_Check(p)
    \/ ContactsPut_Update(p)
    \/ ContactsDelete_Check(p)
    \/ ContactsDelete_Phones(p)
    \/ ContactsDelete_Contact(p)
    \/ PhoneNumbersList_Check(p)
    \/ PhoneNumbersList_Read(p)
    \/ PhoneNumbersGet_Read(p)
    \/ PhoneNumbersGet_Check(p)
    \/ PhoneNumbersPost_Check(p)
    \/ PhoneNumbersPost_Unset(p)
    \/ PhoneNumbersPost_Insert(p)
    \/ PhoneNumbersPut_Check(p)
    \/ PhoneNumbersPut_Unset(p)
    \/ PhoneNumbersPut_Update(p)
    \/ PhoneNumbersDelete_Check(p)
    \/ PhoneNumbersDelete_Delete(p)
    \/ UsersDelete_Check(p)
    \/ UsersDelete_Contacts(p)
    \/ UsersDelete_User(p)
    \/ ApiContactsPost_InsertContact(p)
    \/ ApiContactsPost_InsertPhone(p)
    \/ ApiContactsPost_Select(p)
    \/ ApiContactsGet_Read(p)
    \/ ApiContactsGet_Phones(p)
    \/ ApiContactsPut_Update(p)
    \/ ApiContactsDelete_Phones(p)
    \/ ApiContactsDelete_Contact(p)
    \/ ApiPhonePost_Unset(p)
    \/ ApiPhonePost_Insert(p)
    \/ ApiPhonePut_Select(p)
    \/ ApiPhonePut_Unset(p)
    \/ ApiPhonePut_Update(p)
    \/ ApiPhoneGet_Read(p)
    \/ ApiPhoneList_Read(p)
    \/ ApiPhoneDelete_Delete(p)
    \/ Transaction_Commit(p)
    \/ Transaction_Rollback(p)

Spec == InitContactWithPhone /\ [][Next]_vars

(* ------------------------------------------------------ contact creation *)
PayloadValues == {Undefined, "bool:true", "bool:false"}

Payloads ==
  {<<>>} \cup {<<v>> : v \in PayloadValues}
         \cup {<<v, w>> : v \in PayloadValues, w \in PayloadValues}

CreateRequests ==
  {ContactRequest(op, u, 0, "b", pn) :
     op \in {"contacts.post", "api.contacts.post"}, u \in Users, pn \in Payloads}

NextCreate ==
  \E p \in Procs :
    \/ \E r \in CreateRequests : nreq < MaxCreateReqs /\ Start(p, r)
    \/ ContactsPost_InsertContact(p)
    \/ ContactsPost_InsertPhone(p)
    \/ ContactsPost_Select(p)
    \/ ApiContactsPost_InsertContact(p)
    \/ ApiContactsPost_InsertPhone(p)
    \/ ApiContactsPost_Select(p)
    \/ Transaction_Commit(p)

SpecCreate == InitEmpty /\ [][NextCreate]_vars

(* ------------------------------------- check, then mutate (routes/ only) *)
\* Phone-number create and update and contact delete through the Express
\* routes, by either user, against contact 1 and phone number 1.
RaceRequests ==
  UNION {
    {PhoneRequest(op, u, 1, 1, v, Undefined) :
       op \in {"phones.post", "phones.put"}, v \in {Undefined, "bool:true"}}
    \cup {ContactRequest("contacts.delete", u, 1, Undefined, <<>>)}
    : u \in Users}

NextRace ==
  \E p \in Procs :
    \/ \E r \in RaceRequests : nreq < MaxRaceReqs /\ Start(p, r)
    \/ PhoneNumbersPost_Check(p)
    \/ PhoneNumbersPost_Unset(p)
    \/ PhoneNumbersPost_Insert(p)
    \/ PhoneNumbersPut_Check(p)
    \/ PhoneNumbersPut_Unset(p)
    \/ PhoneNumbersPut_Update(p)
    \/ ContactsDelete_Check(p)
    \/ ContactsDelete_Phones(p)
    \/ ContactsDelete_Contact(p)
    \/ Transaction_Commit(p)

SpecRace == InitContactWithPhone /\ [][NextRace]_vars

(* ================================================================ claims *)
ContactOps ==
  {"contacts.get", "contacts.put", "contacts.delete",
   "api.contacts.get", "api.contacts.put", "api.contacts.delete"}

PhoneOps ==
  {"phones.list", "phones.get", "phones.post", "phones.put", "phones.delete",
   "api.phone.list", "api.phone.get", "api.phone.post", "api.phone.put",
   "api.phone.delete"}

\* The operations that run an ownership check of their own.
CheckedOps ==
  {"contacts.get", "contacts.put", "contacts.delete",
   "phones.list", "phones.get", "phones.post", "phones.put", "phones.delete"}

Outcome(p) ==
  CASE resp[p].status = 404 -> "NotFound"
    [] resp[p].status = 403 -> "Forbidden"
    [] resp[p].status = 500 -> "Fault"
    [] OTHER -> "Allowed"

\* C1: after any sequence of phone-number create and update operations run
\* one at a time, every contact has at most one phone number with
\* is_primary = true.
C1_SinglePrimaryOneAtATime ==
  \A c \in ContactIds : Cardinality(PrimariesOf(phones, c)) <= 1

\* C2: with two concurrent creates/updates that both ask for is_primary =
\* true (a JSON boolean) on the same contact, no committed state holds two
\* primary phone numbers of that contact.
C2_SinglePrimaryConcurrent ==
  \A i, j \in DOMAIN phones :
    (phones[i].contact_id = phones[j].contact_id
       /\ phones[i].is_primary /\ phones[j].is_primary) => i = j

\* C3: a contact created with a payload of two phone numbers that are both
\* flagged is_primary = true ends with exactly one primary row, the last one
\* applied.
C3_TwoPrimaryPayload ==
  \A p \in Procs :
    (/\ pc[p] = "done"
     /\ req[p].op \in {"contacts.post", "api.contacts.post"}
     /\ resp[p].status = 201
     /\ req[p].phone_numbers = <<"bool:true", "bool:true">>)
    => LET mine == PhonesOf(phones, loc[p].contact_id)
       IN  PrimariesOf(phones, loc[p].contact_id)
             = {i \in mine : \A j \in mine : j <= i}

\* C4: a getById, update or delete of a contact by a principal that does not
\* own it answers Forbidden and returns none of the contact's data.
C4_OwnershipIsolation ==
  \A p \in Procs :
    (/\ req[p].op \in ContactOps
     /\ resp[p].status # 0
     /\ req[p].id \in DOMAIN contacts
     /\ contacts[req[p].id].user_id # req[p].principal)
    => (resp[p].status = 403 /\ resp[p].kind = "none")

\* C5: a phone-number operation returns phone-number data or writes a
\* phone-number row only when the principal owns the parent contact; a
\* create or list against another user's contact answers Forbidden.
C5_PhoneOwnership ==
  \A p \in Procs :
    req[p].op \in PhoneOps =>
      /\ resp[p].kind \in {"phone", "phones"} => owner[resp[p].cid] = req[p].principal
      /\ \A c \in loc[p].wrote : owner[c] = req[p].principal
      /\ (/\ req[p].op \in {"phones.post", "phones.list", "api.phone.post", "api.phone.list"}
          /\ resp[p].status # 0
          /\ req[p].contact_id \in DOMAIN contacts
          /\ contacts[req[p].contact_id].user_id # req[p].principal)
         => resp[p].status = 403

\* C6: the outcome of an operation's ownership check is the one the rule
\* prescribes for the rows it looked up: NotFound, Forbidden or Allowed.
C6_GuardOutcome ==
  \A p \in Procs :
    (/\ req[p].op \in CheckedOps
     /\ loc[p].guard \in {"NotFound", "Forbidden", "Allowed"}
     /\ resp[p].status # 0)
    => Outcome(p) = loc[p].guard

\* C7: a contact or phone-number operation answered Forbidden or NotFound
\* has written no row, and an update of a contact by a user who does not own
\* it does not write that contact.
C7_DeniedLeavesRowsUnchanged ==
  \A p \in Procs :
    /\ (/\ req[p].op \in ContactOps \cup PhoneOps
        /\ resp[p].status \in {403, 404})
       => (loc[p].wrote = {} /\ loc[p].wroteUsers = {})
    /\ (/\ req[p].op \in {"contacts.put", "api.contacts.put"}
        /\ owner[req[p].id] # req[p].principal)
       => req[p].id \notin loc[p].wrote

\* C8: while the transaction of a phone-number create, a phone-number update
\* or a contact delete is open, the ownership/existence check it rests on
\* still holds of the committed rows: no other commit falls between the
\* check and the mutation.
InMutation(p) ==
  \/ pc[p] \in {"phones.post:unset", "phones.post:insert", "phones.put:unset",
                "phones.put:update", "contacts.delete:phones", "contacts.delete:contact"}
  \/ pc[p] = "commit" /\ req[p].op \in {"phones.post", "phones.put", "contacts.delete"}

CheckNow(p) ==
  CASE req[p].op = "phones.post" -> AuthorizeContact(req[p].principal, req[p].contact_id)
    [] req[p].op = "phones.put" -> AuthorizePhone(req[p].principal, req[p].id)
    [] OTHER -> AuthorizeContact(req[p].principal, req[p].id)

C8_CheckInsideTransaction ==
  \A p \in Procs : InMutation(p) => CheckNow(p) = "Allowed"

\* C9: in every committed state every phone number's contact exists and
\* every contact's user exists.
C9_ReferentialIntegrity ==
  /\ \A i \in DOMAIN phones : phones[i].contact_id \in DOMAIN contacts
  /\ \A c \in DOMAIN contacts : contacts[c].user_id \in users

\* C10: the commit of a contact delete leaves a state in which the contact
\* row is gone and no phone number references it.
C10_DeleteContactCascade ==
  [][\A p \in Procs :
       (/\ pc[p] = "commit"
        /\ pc'[p] = "done"
        /\ req[p].op \in {"contacts.delete", "api.contacts.delete"})
       => (/\ req[p].id \notin DOMAIN contacts'
           /\ PhonesOf(phones', req[p].id) = {})]_vars
(* --------------------------------------------------- cascade deletions *)
\* Deletes of contact 1 and of user 1 through both stacks, contact creation
\* with user 1's token, and statements that fail.
CascadeRequests ==
  {ContactRequest(op, 1, 1, Undefined, <<>>) :
     op \in {"contacts.delete", "api.contacts.delete", "users.delete", "api.users.delete"}}
  \cup {ContactRequest("contacts.post", 1, 0, "b", pn) :
          pn \in {<<>>, <<"bool:true">>}}

NextCascade ==
  \E p \in Procs :
    \/ \E r \in CascadeRequests : nreq < MaxCascadeReqs /\ Start(p, r)
    \/ ContactsDelete_Check(p)
    \/ ContactsDelete_Phones(p)
    \/ ContactsDelete_Contact(p)
    \/ ApiContactsDelete_Phones(p)
    \/ ApiContactsDelete_Contact(p)
    \/ UsersDelete_Check(p)
    \/ UsersDelete_Contacts(p)
    \/ UsersDelete_User(p)
    \/ ApiUsersDelete_Contacts(p)
    \/ ApiUsersDelete_User(p)
    \/ ContactsPost_InsertContact(p)
    \/ ContactsPost_InsertPhone(p)
    \/ ContactsPost_Select(p)
    \/ Statement_Fails(p)
    \/ Transaction_Commit(p)
    \/ Transaction_Rollback(p)

SpecCascade == InitContactWithPhone /\ [][NextCascade]_vars

UserDeletes == {"users.delete", "api.users.delete"}

\* C11: the commit of a deleteUser(u) leaves a state in which no contact
\* references u and no phone number references a contact that u owned.
C11_DeleteUserCascade ==
  [][\A p \in Procs :
       (/\ pc[p] = "commit"
        /\ pc'[p] = "done"
        /\ req[p].op \in UserDeletes
        /\ req[p].id \in tx[p].usDel)
       => (/\ \A c \in DOMAIN contacts' : contacts'[c].user_id # req[p].id
           /\ \A i \in DOMAIN phones' : owner[phones'[i].contact_id] # req[p].id)]_vars

ContactDeletes == {"contacts.delete", "api.contacts.delete"}

\* The rows of the parent and of its dependents are all gone.
CascadeDone(p, us, cs, ps) ==
  IF req[p].op \in ContactDeletes
  THEN /\ req[p].id \notin DOMAIN cs
       /\ PhonesOf(ps, req[p].id) = {}
  ELSE /\ req[p].id \notin us
       /\ \A c \in DOMAIN cs : cs[c].user_id # req[p].id
       /\ \A i \in DOMAIN ps : owner[ps[i].contact_id] # req[p].id

\* C12: the step that ends the transaction of a deleteContact or deleteUser
\* (COMMIT or ROLLBACK, also after a failed statement) either leaves the
\* parent row and all its dependent rows removed or leaves the tables as
\* they were.
C12_NoPartialCascade ==
  [][\A p \in Procs :
       (/\ pc[p] \in {"commit", "rollback"}
        /\ pc'[p] = "done"
        /\ req[p].op \in ContactDeletes \cup UserDeletes)
       => \/ CascadeDone(p, users', contacts', phones')
          \/ <<users', contacts', phones'>> = <<users, contacts, phones>>]_vars

\* C13: when the DELETE of the contact row inside deleteContact runs and
\* affects zero rows, the transaction is aborted and NotFound is what the
\* operation reports.
C13_ZeroRowContactDelete ==
  [][\A p \in Procs :
       (/\ pc[p] \in {"contacts.delete:contact", "api.contacts.delete:contact"}
        /\ pc'[p] # pc[p]
        /\ loc'[p].err # "store failure"
        /\ req[p].id \notin DOMAIN ContactView(p))
       => (/\ pc'[p] = "rollback"
           /\ resp'[p].status = 0
           /\ loc'[p].err = "Contact not found")]_vars

\* C14: a deleteUser that has answered NotFound (its user-row delete hit
\* zero rows) has committed no deletion of contacts.
C14_ZeroRowUserDelete ==
  \A p \in Procs :
    (/\ pc[p] = "done"
     /\ req[p].op \in UserDeletes
     /\ resp[p].status = 404)
    => loc[p].wrote = {}

\* C15: when the UPDATE of the target row inside a phone-number update runs
\* and the row does not exist, the transaction rolls back (so an earlier
\* clearing of the other rows is discarded) and NotFound is reported.
C15_ZeroRowPhoneUpdate ==
  [][\A p \in Procs :
       (/\ pc[p] \in {"phones.put:update", "api.phone.put:update"}
        /\ pc'[p] # pc[p]
        /\ loc'[p].err # "store failure"
        /\ req[p].id \notin DOMAIN PhoneView(p))
       => (/\ pc'[p] = "rollback"
           /\ resp'[p].status = 0
           /\ loc'[p].err = "Phone number not found")]_vars

PhoneCreates == {"phones.post", "api.phone.post"}
PhoneUpdates == {"phones.put", "api.phone.put"}

\* The row a phone-number create or update stores: the inserted row, or the
\* row with the id of the request.
Target(p) ==
  IF req[p].op \in PhoneCreates
  THEN DOMAIN tx[p].ph \ DOMAIN phones
  ELSE {req[p].id}

\* Before the target row is stored no other row of the contact is primary.
ClearedFirst(p) ==
  LET view == PhoneView(p)
  IN  /\ pc[p] \in {"phones.post:insert", "api.phone.post:insert"}
         => PrimariesOf(view, req[p].contact_id) = {}
      /\ (pc[p] \in {"phones.put:update", "api.phone.put:update"}
            /\ req[p].id \in DOMAIN view)
         => PrimariesOf(view, view[req[p].id].contact_id) \subseteq {req[p].id}

\* C16: a phone-number create or update with is_primary = true, run on its
\* own, clears the primary flag of every other phone number of the contact
\* before it stores the target row, and its commit leaves the target as the
\* only primary phone number of its contact.
C16_ClearThenSet ==
  [][\A p \in Procs :
       (req[p].op \in PhoneCreates \cup PhoneUpdates /\ req[p].is_primary = "bool:true")
       => /\ ClearedFirst(p)
          /\ (pc[p] = "commit" /\ pc'[p] = "done")
             => /\ Target(p) # {}
                /\ \A i \in Target(p) :
                     /\ i \in DOMAIN phones'
                     /\ PrimariesOf(phones', phones'[i].contact_id) = {i}]_vars

C16_Witness ==
  /\ pc[1] = "commit"
  /\ req[1].op = "phones.put"
  /\ req[1].is_primary = "bool:true"
  /\ \E i \in DOMAIN tx[1].ph :
       /\ i # req[1].id
       /\ i \in DOMAIN phones
       /\ phones[i].is_primary
       /\ ~tx[1].ph[i].is_primary

\* C17: the commit of a phone-number create or update whose is_primary is
\* the boolean false or absent changes the primary flag of no other phone
\* number; a created row is stored with is_primary = false, and an update
\* without is_primary leaves the flag of its target as it was.
C17_NonPrimaryFrame ==
  [][\A p \in Procs :
       (/\ pc[p] = "commit"
        /\ pc'[p] = "done"
        /\ req[p].op \in PhoneCreates \cup PhoneUpdates
        /\ req[p].is_primary \in {Undefined, "bool:false"})
       => /\ \A i \in DOMAIN phones \ Target(p) :
               /\ i \in DOMAIN phones'
               /\ phones'[i].is_primary = phones[i].is_primary
          /\ req[p].op \in PhoneCreates
             => (Target(p) # {} /\ \A i \in Target(p) : ~phones'[i].is_primary)
          /\ (req[p].op \in PhoneUpdates /\ req[p].id \in DOMAIN phones)
             => phones'[req[p].id].is_primary =
                  IF req[p].is_primary = Undefined
                  THEN phones[req[p].id].is_primary ELSE FALSE]_vars

C17_Witness ==
  /\ pc[1] = "done"
  /\ req[1].op = "phones.post"
  /\ req[1].is_primary = Undefined
  /\ resp[1].status = 201
  /\ Cardinality(PrimariesOf(phones, 1)) = 1
  /\ Cardinality(PhonesOf(phones, 1)) = 2

(* ------------------------------------------ a reader beside a re-flagging *)
\* Request process 1 creates and updates phone numbers of contact 1 with
\* is_primary = true, one request after the other; request process 2 lists
\* the phone numbers of contact 1 meanwhile.
ReaderRequests ==
  {PhoneRequest(op, 1, 0, 1, Undefined, Undefined) : op \in {"phones.list", "api.phone.list"}}

NextReader ==
  \/ \E r \in PrimaryRequests : nreq < MaxReaderReqs /\ Start(1, r)
  \/ PhoneNumbersPost_Check(1)
  \/ PhoneNumbersPost_Unset(1)
  \/ PhoneNumbersPost_Insert(1)
  \/ PhoneNumbersPut_Check(1)
  \/ PhoneNumbersPut_Unset(1)
  \/ PhoneNumbersPut_Update(1)
  \/ ApiPhonePost_Unset(1)
  \/ ApiPhonePost_Insert(1)
  \/ ApiPhonePut_Select(1)
  \/ ApiPhonePut_Unset(1)
  \/ ApiPhonePut_Update(1)
  \/ Transaction_Commit(1)
  \/ Transaction_Rollback(1)
  \/ \E r \in ReaderRequests : nreq < MaxReaderReqs /\ Start(2, r)
  \/ PhoneNumbersList_Check(2)
  \/ PhoneNumbersList_Read(2)
  \/ ApiPhoneList_Read(2)

SpecReader == InitContactWithPhone /\ [][NextReader]_vars

\* C18: a reader that lists the phone numbers of a contact while its primary
\* phone number is being re-flagged sees exactly one primary row: never two,
\* and never none (one existed before the operation and one exists after).
C18_ReaderIsolation ==
  \A p \in Procs :
    (req[p].op \in {"phones.list", "api.phone.list"} /\ resp[p].status = 200)
    => Cardinality(loc[p].seen) = 1

\* The reader ran while the writer had cleared the old primary row and not
\* yet stored the new one.
C18_Witness ==
  /\ pc[2] = "done"
  /\ resp[2].status = 200
  /\ loc[2].during
  /\ pc[1] \in {"phones.post:insert", "phones.put:update",
                "api.phone.post:insert", "api.phone.put:update"}
  /\ PrimariesOf(PhoneView(1), 1) = {}

(* ------------------------------------- contact creation that can fail *)
\* Contact creation by user 1 with up to two phone numbers; any statement
\* of the transaction may fail.
FaultCreateRequests ==
  {ContactRequest(op, 1, 0, "b", pn) :
     op \in {"contacts.post", "api.contacts.post"},
     pn \in {<<>>, <<"bool:true">>, <<"bool:true", Undefined>>}}

NextCreateFault ==
  \E p \in Procs :
    \/ \E r \in FaultCreateRequests : nreq < MaxFaultReqs /\ Start(p, r)
    \/ ContactsPost_InsertContact(p)
    \/ ContactsPost_InsertPhone(p)
    \/ ContactsPost_Select(p)
    \/ ApiContactsPost_InsertContact(p)
    \/ ApiContactsPost_InsertPhone(p)
    \/ ApiContactsPost_Select(p)
    \/ Statement_Fails(p)
    \/ Transaction_CommitFails(p)
    \/ Transaction_Commit(p)
    \/ Transaction_Rollback(p)

SpecCreateFault == InitEmpty /\ [][NextCreateFault]_vars

\* C19: whatever statement of a contact creation fails, the committed state
\* holds the contact with all the phone numbers of its payload or neither
\* the contact nor any of its phone numbers.
C19_CreateAtomic ==
  \A p \in Procs :
    (req[p].op \in {"contacts.post", "api.contacts.post"} /\ loc[p].contact_id # 0)
    => LET c == loc[p].contact_id
       IN  IF c \in DOMAIN contacts
           THEN Cardinality(PhonesOf(phones, c)) = Len(req[p].phone_numbers)
           ELSE PhonesOf(phones, c) = {}

\* The second phone-number insert failed after the contact and the first
\* phone number had been inserted.
C19_Witness ==
  \E p \in Procs :
    /\ pc[p] = "done"
    /\ req[p].op = "contacts.post"
    /\ Len(req[p].phone_numbers) = 2
    /\ loc[p].i = 2
    /\ loc[p].err = "store failure"
    /\ resp[p].status = 500
    /\ loc[p].contact_id \notin DOMAIN contacts

(* --------------------------- lib/db.js transaction, statement by statement *)
\* const client = await pool.connect(): it resolves with a connection
\* checked out of the pool, or rejects and transaction() rejects with it,
\* before the try block is entered.
Transaction_Connect(p) ==
  /\ pc[p] = "tx:connect"
  /\ \E ok \in BOOLEAN :
       IF ok
       THEN /\ loc' = [loc EXCEPT ![p].acquired = @ + 1]
            /\ pc' = [pc EXCEPT ![p] = "tx:begin"]
            /\ resp' = resp
       ELSE /\ loc' = [loc EXCEPT ![p].err = "connect failed"]
            /\ pc' = [pc EXCEPT ![p] = "done"]
            /\ resp' = [resp EXCEPT ![p] = Status(500)]
  /\ UNCHANGED <<dbVars, seqVars, req, tx, nreq, owner>>

\* await client.query('BEGIN')
Transaction_Begin(p) ==
  /\ pc[p] = "tx:begin"
  /\ \E ok \in BOOLEAN :
       IF ok
       THEN /\ loc' = [loc EXCEPT ![p].issued = Append(@, "BEGIN")]
            /\ pc' = [pc EXCEPT ![p] = "tx:callback"]
       ELSE /\ loc' = [loc EXCEPT ![p].issued = Append(@, "BEGIN"),
                                  ![p].err = "BEGIN failed"]
            /\ pc' = [pc EXCEPT ![p] = "tx:catch"]
  /\ UNCHANGED <<dbVars, seqVars, req, tx, resp, nreq, owner>>

\* A callback whose error is swallowed: db.transaction goes on to COMMIT
\* whether the callback returned or threw.
Transaction_Callback_Swallow(p) ==
  /\ pc[p] = "tx:callback"
  /\ \E ok \in BOOLEAN, w \in BOOLEAN :
       /\ w => nextCid \in ContactIds
       /\ tx' = [tx EXCEPT ![p].ct =
                   IF w THEN (nextCid :> ContactRow(1, req[p])) @@ @ ELSE @]
       /\ nextCid' = IF w THEN nextCid + 1 ELSE nextCid
       /\ loc' = [loc EXCEPT
                    ![p].contact_id = IF w THEN nextCid ELSE @,
                    ![p].issued = Append(@, IF ok THEN "callback returned"
                                                  ELSE "callback threw")]
       /\ pc' = [pc EXCEPT ![p] = "tx:commit"]
  /\ UNCHANGED <<dbVars, nextPid, req, resp, nreq, owner>>

\* const result = await callback(client): the callback sends its statements
\* on the client (here at most one INSERT INTO contacts, which the
\* connection's transaction holds uncommitted) and then returns or throws.
Transaction_Callback(p) ==
  /\ pc[p] = "tx:callback"
  /\ \E ok \in BOOLEAN, w \in BOOLEAN :
       /\ w => nextCid \in ContactIds
       /\ tx' = [tx EXCEPT ![p].ct =
                   IF w THEN (nextCid :> ContactRow(1, req[p])) @@ @ ELSE @]
       /\ nextCid' = IF w THEN nextCid + 1 ELSE nextCid
       /\ IF ok
          THEN /\ loc' = [loc EXCEPT
                           ![p].contact_id = IF w THEN nextCid ELSE @,
                           ![p].issued = Append(@, "callback returned")]
               /\ pc' = [pc EXCEPT ![p] = "tx:commit"]
          ELSE /\ loc' = [loc EXCEPT
                           ![p].contact_id = IF w THEN nextCid ELSE @,
                           ![p].issued = Append(@, "callback threw"),
                           ![p].err = "callback failed"]
               /\ pc' = [pc EXCEPT ![p] = "tx:catch"]
  /\ UNCHANGED <<dbVars, nextPid, req, resp, nreq, owner>>

\* await client.query('COMMIT'); return result.  A COMMIT that resolves
\* makes the transaction's writes the committed rows; one that rejects
\* leaves them uncommitted and enters the catch block.
Transaction_CommitStatement(p) ==
  /\ pc[p] = "tx:commit"
  /\ \E ok \in BOOLEAN :
       IF ok
       THEN /\ loc' = [loc EXCEPT ![p].issued = Append(@, "COMMIT"),
                                  ![p].result = Status(200)]
            /\ contacts' = CommittedContacts(p)
            /\ tx' = [tx EXCEPT ![p] = NoTx]
            /\ pc' = [pc EXCEPT ![p] = "tx:finally"]
       ELSE /\ loc' = [loc EXCEPT ![p].issued = Append(@, "COMMIT"),
                                  ![p].err = "COMMIT failed"]
            /\ UNCHANGED <<contacts, tx>>
            /\ pc' = [pc EXCEPT ![p] = "tx:catch"]
  /\ UNCHANGED <<users, profiles, phones, seqVars, req, resp, nreq, owner>>

\* A catch block with no finally after it: a rejected ROLLBACK leaves the
\* function.
Transaction_Catch_NoFinally(p) ==
  /\ pc[p] = "tx:catch"
  /\ \E ok \in BOOLEAN :
       IF ok
       THEN /\ loc' = [loc EXCEPT ![p].issued = Append(@, "ROLLBACK")]
            /\ pc' = [pc EXCEPT ![p] = "tx:finally"]
            /\ resp' = resp
       ELSE /\ loc' = [loc EXCEPT ![p].issued = Append(@, "ROLLBACK"),
                                  ![p].err = "ROLLBACK failed"]
            /\ pc' = [pc EXCEPT ![p] = "done"]
            /\ resp' = [resp EXCEPT ![p] = Status(500)]
  /\ tx' = [tx EXCEPT ![p] = NoTx]
  /\ UNCHANGED <<dbVars, seqVars, req, nreq, owner>>

\* catch (e) { await client.query('ROLLBACK'); throw e }: whether ROLLBACK
\* resolves or rejects, an error leaves the block and finally runs next.
\* A ROLLBACK that resolves discards the transaction's writes; one that
\* rejects does so because the connection is lost, and the store aborts the
\* transaction of a lost connection.
Transaction_Catch(p) ==
  /\ pc[p] = "tx:catch"
  /\ \E ok \in BOOLEAN :
       loc' = [loc EXCEPT ![p].issued = Append(@, "ROLLBACK"),
                          ![p].err = IF ok THEN @ ELSE "ROLLBACK failed"]
  /\ tx' = [tx EXCEPT ![p] = NoTx]
  /\ pc' = [pc EXCEPT ![p] = "tx:finally"]
  /\ UNCHANGED <<dbVars, seqVars, req, resp, nreq, owner>>

\* finally { client.release() }, then the result or the error reaches the
\* caller.
Transaction_Finally(p) ==
  /\ pc[p] = "tx:finally"
  /\ loc' = [loc EXCEPT ![p].released = @ + 1]
  /\ resp' = [resp EXCEPT ![p] =
               IF loc[p].err = "none" THEN loc[p].result ELSE Status(500)]
  /\ pc' = [pc EXCEPT ![p] = "done"]
  /\ UNCHANGED <<dbVars, seqVars, req, tx, nreq, owner>>

TransactionCall == [NoReq EXCEPT !.op = "db.transaction"]

NextTransaction ==
  \E p \in Procs :
    \/ nreq < MaxTxCalls /\ Start(p, TransactionCall)
    \/ Transaction_Connect(p)
    \/ Transaction_Begin(p)
    \/ Transaction_Callback(p)
    \/ Transaction_CommitStatement(p)
    \/ Transaction_Catch(p)
    \/ Transaction_Finally(p)

SpecTransaction == InitEmpty /\ [][NextTransaction]_vars

\* C20: a db.transaction call never releases a connection it has not
\* acquired, never releases it twice, and has released it when the call has
\* ended, on every path: no connection stays checked out once all calls
\* have finished.
C20_ConnectionReleased ==
  \A p \in Procs :
    req[p].op = "db.transaction" =>
      /\ loc[p].released <= loc[p].acquired
      /\ loc[p].acquired <= 1
      /\ pc[p] = "done" => loc[p].released = loc[p].acquired
      /\ (pc[p] = "done" /\ loc[p].err # "connect failed") => loc[p].released = 1

\* A call whose ROLLBACK failed has ended.
C20_Witness ==
  \E p \in Procs :
    /\ pc[p] = "done"
    /\ req[p].op = "db.transaction"
    /\ loc[p].err = "ROLLBACK failed"
    /\ loc[p].acquired = 1
    /\ loc[p].released = 1

\* C21: db.transaction sends BEGIN before the callback runs; it sends COMMIT
\* exactly when the callback has returned without throwing; when the
\* callback threw it sends ROLLBACK and the caller receives an error; and
\* the rows written by a callback that threw are never among the committed
\* rows.
C21_BeginCommitRollback ==
  \A p \in Procs :
    req[p].op = "db.transaction" =>
      LET s == loc[p].issued
          Has(x) == \E i \in DOMAIN s : s[i] = x
          Before(x, y) == \A j \in DOMAIN s :
                            s[j] = y => \E i \in 1..(j - 1) : s[i] = x
          settled == pc[p] \in {"tx:finally", "done"}
      IN /\ Before("BEGIN", "callback returned")
         /\ Before("BEGIN", "callback threw")
         /\ Before("callback returned", "COMMIT")
         /\ Has("COMMIT") => ~Has("callback threw")
         /\ (settled /\ Has("callback returned")) => Has("COMMIT")
         /\ (settled /\ Has("callback threw")) => Has("ROLLBACK")
         /\ (pc[p] = "done" /\ Has("callback threw")) =>
              /\ resp[p].status = 500
              /\ loc[p].err # "none"
         /\ Has("callback threw") =>
              /\ loc[p].contact_id \notin DOMAIN contacts
              /\ pc[p] \in {"tx:finally", "done"} => tx[p] = NoTx

\* A call whose callback inserted a row and then threw has ended.
C21_Witness ==
  \E p \in Procs :
    /\ pc[p] = "done"
    /\ req[p].op = "db.transaction"
    /\ loc[p].issued = <<"BEGIN", "callback threw", "ROLLBACK">>
    /\ loc[p].contact_id # 0
    /\ loc[p].contact_id \notin DOMAIN contacts
    /\ resp[p].status = 500

(* ------------------------------------------------------ listing contacts *)
\* The page and limit query-string parameters tried: absent, not a number,
\* negative, zero and positive.
QueryValues == {Undefined, "str:abc", "str:-1", "str:0", "str:1", "str:2"}

\* User 1 lists their contacts (GET /api/contacts with every page and limit,
\* and the pages/api GET ?user_id=1), creates contacts, deletes them, adds
\* phone numbers of several types to contact 1, and reads contact 1 and its
\* phone numbers.
ListRequests ==
  {[NoReq EXCEPT !.op = "contacts.list", !.principal = 1, !.page = pg, !.limit = lm] :
     pg \in QueryValues, lm \in QueryValues}
  \cup {[NoReq EXCEPT !.op = "contacts.list", !.principal = 1, !.user_id = 2]}
  \cup {[NoReq EXCEPT !.op = "api.contacts.list", !.user_id = 1]}
  \cup {[ContactRequest("contacts.post", 1, 0, n, <<>>) EXCEPT !.is_emergency = e] :
          n \in {"a", "b"}, e \in {Undefined, "bool:true"}}
  \cup {ContactRequest("contacts.delete", 1, id, Undefined, <<>>) : id \in ContactIds}
  \cup {PhoneRequest("phones.post", 1, 0, 1, v, t) :
          v \in {Undefined, "bool:true"}, t \in {Undefined, "home", "work"}}
  \cup {PhoneRequest(op, 1, 0, 1, Undefined, Undefined) :
          op \in {"phones.list", "api.phone.list"}}
  \cup {ContactRequest(op, 1, 1, Undefined, <<>>) :
          op \in {"contacts.get", "api.contacts.get"}}

\* The same requests with one choice of parameters each: the list with the
\* default page and one contact or ten contacts per page.
ConcurrentListRequests ==
  {[NoReq EXCEPT !.op = "contacts.list", !.principal = 1, !.limit = lm] :
     lm \in {Undefined, "str:1"}}
  \cup {[NoReq EXCEPT !.op = "api.contacts.list", !.user_id = 1]}
  \cup {[ContactRequest("contacts.post", 1, 0, "b", <<>>)
           EXCEPT !.is_emergency = "bool:true"]}
  \cup {ContactRequest("contacts.delete", 1, 1, Undefined, <<>>)}
  \cup {PhoneRequest("phones.post", 1, 0, 1, v, "home") : v \in {Undefined, "bool:true"}}
  \cup {PhoneRequest(op, 1, 0, 1, Undefined, Undefined) :
          op \in {"phones.list", "api.phone.list"}}
  \cup {ContactRequest(op, 1, 1, Undefined, <<>>) :
          op \in {"contacts.get", "api.contacts.get"}}

ListStep(p, requests) ==
  \/ \E r \in requests : nreq < MaxListReqs /\ Start(p, r)
  \/ ContactsList_Check(p)
  \/ ContactsList_Contacts(p)
  \/ ContactsList_Count(p)
  \/ ContactsList_Phones(p)
  \/ ApiContactsList_Contacts(p)
  \/ ApiContactsList_Phones(p)
  \/ ContactsGet_Read(p)
  \/ ContactsGet_Phones(p)
  \/ ApiContactsGet_Read(p)
  \/ ApiContactsGet_Phones(p)
  \/ ContactsPost_InsertContact(p)
  \/ ContactsPost_Select(p)
  \/ ContactsDelete_Check(p)
  \/ ContactsDelete_Phones(p)
  \/ ContactsDelete_Contact(p)
  \/ PhoneNumbersPost_Check(p)
  \/ PhoneNumbersPost_Unset(p)
  \/ PhoneNumbersPost_Insert(p)
  \/ PhoneNumbersList_Check(p)
  \/ PhoneNumbersList_Read(p)
  \/ ApiPhoneList_Read(p)
  \/ Transaction_Commit(p)

\* One request at a time: no concurrent writes.
NextListSeq == ListStep(1, ListRequests)

SpecListSeq == InitContactWithPhone /\ [][NextListSeq]_vars

\* Requests served concurrently.
NextList == \E p \in Procs : ListStep(p, ConcurrentListRequests)

SpecList == InitContactWithPhone /\ [][NextList]_vars

\* C22: once paginate has run, page and limit are positive integers, an
\* absent, non-numeric or non-positive page has become 1, an absent,
\* non-numeric or non-positive limit has become 10, and the offset is not
\* negative.
C22_PaginationCoercion ==
  \A p \in Procs :
    (req[p].op = "contacts.list" /\ pc[p] # "contacts.list:check") =>
      LET pg == loc[p].pagination
          page == ParseInt(req[p].page)
          limit == ParseInt(req[p].limit)
      IN  /\ pg.page >= 1
          /\ pg.limit >= 1
          /\ (page.nan \/ page.n <= 0) => pg.page = 1
          /\ (limit.nan \/ limit.n <= 0) => pg.limit = 10
          /\ pg.offset >= 0

\* C23: a list response carries at most limit contacts, namely those at
\* positions offset+1 .. offset+limit of the owner's contacts in list
\* order, with offset = (page - 1) * limit; its total is the number of all
\* contacts of the owner whatever page and limit are; and its pages is
\* ceil(total / limit).
C23_WindowAndTotal ==
  \A p \in Procs :
    (req[p].op = "contacts.list" /\ pc[p] = "done" /\ resp[p].status = 200) =>
      LET pg == loc[p].pagination
          rows == loc[p].rows
          mine == {c \in DOMAIN contacts : contacts[c].user_id = req[p].principal}
          T == Cardinality(mine)
      IN  /\ pg.offset = (pg.page - 1) * pg.limit
          /\ Len(rows) <= pg.limit
          /\ \E s \in SelectContacts(contacts, req[p].principal) :
               /\ \A i \in DOMAIN rows :
                    /\ pg.offset + i \in DOMAIN s
                    /\ rows[i] = s[pg.offset + i]
               /\ \A k \in DOMAIN s :
                    (pg.offset < k /\ k <= pg.offset + pg.limit) =>
                      k - pg.offset \in DOMAIN rows
          /\ loc[p].total = T
          /\ loc[p].pages * pg.limit >= T
          /\ (loc[p].pages - 1) * pg.limit < T

\* The second page of one contact has been answered to a user with two
\* contacts.
C23_Witness ==
  \E p \in Procs :
    /\ req[p].op = "contacts.list" /\ pc[p] = "done" /\ resp[p].status = 200
    /\ loc[p].pagination = [page |-> 2, limit |-> 1, offset |-> 1]
    /\ Len(loc[p].rows) = 1
    /\ loc[p].total = 2
    /\ loc[p].pages = 2

\* C24: with one request at a time, for the limit of an answered list
\* request and the T contacts the user has, pages = ceil(T / limit), the
\* lengths of pages 1..pages sum to T, and the page that was answered is
\* one of them.
C24_PageLengthsSumToTotal ==
  \A p \in Procs :
    (req[p].op = "contacts.list" /\ pc[p] = "done" /\ resp[p].status = 200) =>
      LET u == req[p].principal
          T == Cardinality({c \in DOMAIN contacts : contacts[c].user_id = u})
          L == loc[p].pagination.limit
          pages == loc[p].pages
          Param(i) == CASE i = 1 -> "str:1" [] i = 2 -> "str:2" [] i = 3 -> "str:3"
          Page(i) ==
            LET pg == Paginate([req[p] EXCEPT !.page = Param(i)])
            IN  {LimitOffset(s, pg.limit, pg.offset) : s \in SelectContacts(contacts, u)}
          Lengths(i) == {Len(w) : w \in Page(i)}
      IN  /\ pages * L >= T
          /\ (pages - 1) * L < T
          /\ \A i \in 1..pages : Cardinality(Lengths(i)) = 1
          /\ SumOver(1..pages,
                     [i \in 1..pages |-> CHOOSE n \in Lengths(i) : TRUE]) = T
          /\ loc[p].pagination.page \in 1..pages =>
               loc[p].rows \in Page(loc[p].pagination.page)

\* The first of two pages of one contact has been answered.
C24_Witness ==
  \E p \in Procs :
    /\ req[p].op = "contacts.list" /\ pc[p] = "done" /\ resp[p].status = 200
    /\ loc[p].pagination = [page |-> 1, limit |-> 1, offset |-> 0]
    /\ Len(loc[p].rows) = 1
    /\ loc[p].pages = 2
    /\ Cardinality(DOMAIN contacts) = 2

\* C25: the total of a list call is the number of contacts the windowed
\* fetch of the same call had to choose from: both reads saw the same
\* contacts.
C25_SnapshotConsistency ==
  \A p \in Procs :
    (req[p].op = "contacts.list"
       /\ pc[p] \in {"contacts.list:phones", "done"}
       /\ loc[p].err = "none" /\ resp[p].status # 403) =>
      loc[p].total = Cardinality(loc[p].snapshot)

\* C26: the contacts a list query returned have every emergency contact
\* before every non-emergency contact and, within each group, names in
\* ascending order.
C26_ContactOrdering ==
  \A p \in Procs :
    (req[p].op \in {"contacts.list", "api.contacts.list"}) =>
      LET rows == loc[p].rows
      IN  \A i, j \in DOMAIN rows :
            i < j =>
              /\ rows[j].is_emergency => rows[i].is_emergency
              /\ rows[i].is_emergency = rows[j].is_emergency =>
                   Rank(rows[i].name) <= Rank(rows[j].name)

\* Scenario B: the list of page 1 with limit 10 is [C2, C1], C2 the
\* emergency contact created after C1.
C26_Witness ==
  \E p \in Procs :
    /\ req[p].op = "contacts.list" /\ pc[p] = "done" /\ resp[p].status = 200
    /\ loc[p].pagination = [page |-> 1, limit |-> 10, offset |-> 0]
    /\ Len(loc[p].rows) = 2
    /\ loc[p].rows[1].id = 2 /\ loc[p].rows[1].is_emergency
    /\ loc[p].rows[2].id = 1 /\ ~loc[p].rows[2].is_emergency
    /\ Rank(loc[p].rows[1].name) > Rank(loc[p].rows[2].name)

\* C27: the phone numbers a list-by-contact request returned have the
\* primary one first and the others in ascending order of type.
C27_PhoneOrdering ==
  \A p \in Procs :
    (req[p].op \in {"phones.list", "api.phone.list"}) =>
      LET rows == loc[p].rows
      IN  \A i, j \in DOMAIN rows :
            i < j =>
              /\ rows[j].is_primary => rows[i].is_primary
              /\ rows[i].is_primary = rows[j].is_primary =>
                   Rank(rows[i].phone_type) <= Rank(rows[j].phone_type)

\* The list is the primary mobile number, then a home number, then a work
\* number that was created before the home number.
C27_Witness ==
  \E p \in Procs :
    /\ req[p].op \in {"phones.list", "api.phone.list"}
    /\ pc[p] = "done" /\ resp[p].status = 200
    /\ Len(loc[p].rows) = 3
    /\ loc[p].rows[1].is_primary /\ loc[p].rows[1].phone_type = "mobile"
    /\ loc[p].rows[2].phone_type = "home"
    /\ loc[p].rows[3].phone_type = "work"
    /\ loc[p].rows[3].id < loc[p].rows[2].id

\* C28: the phone numbers attached to a contact by get-by-id, by the list
\* and by create are ordered primary first, then by type ascending.
C28_AggregatePhoneOrdering ==
  LET Ordered(s) ==
        \A i, j \in DOMAIN s :
          i < j =>
            /\ s[j].is_primary => s[i].is_primary
            /\ s[i].is_primary = s[j].is_primary =>
                 Rank(s[i].phone_type) <= Rank(s[j].phone_type)
  IN  \A p \in Procs :
        /\ req[p].op \in {"contacts.get", "api.contacts.get",
                           "contacts.post", "api.contacts.post"} =>
             Ordered(loc[p].rows)
        /\ req[p].op \in {"contacts.list", "api.contacts.list"} =>
             \A i \in DOMAIN loc[p].out : Ordered(loc[p].out[i].phone_numbers)

\* C29: whatever order the per-contact fetches of a list call complete in,
\* element i of the output is contact i of the ordered input with phone
\* numbers of that contact only, and the answered output has one element
\* per input contact.
C29_ParallelFetchOrder ==
  \A p \in Procs :
    (req[p].op \in {"contacts.list", "api.contacts.list"}) =>
      /\ \A i \in DOMAIN loc[p].out :
           /\ i \in DOMAIN loc[p].rows
           /\ loc[p].out[i].contact = loc[p].rows[i]
           /\ \A k \in DOMAIN loc[p].out[i].phone_numbers :
                loc[p].out[i].phone_numbers[k].contact_id = loc[p].rows[i].id
      /\ (pc[p] = "done" /\ resp[p].status = 200) =>
           DOMAIN loc[p].out = DOMAIN loc[p].rows

\* The fetch for the second of two contacts, which has a phone number, has
\* completed before the fetch for the first.
C29_Witness ==
  \E p \in Procs :
    /\ req[p].op = "contacts.list"
    /\ pc[p] = "contacts.list:phones"
    /\ Len(loc[p].rows) = 2
    /\ DOMAIN loc[p].out = {2}
    /\ Len(loc[p].out[2].phone_numbers) > 0

UserRequests ==
  {[NoReq EXCEPT !.op = op, !.principal = 2, !.id = id, !.name = n, !.age = a] :
     op \in {"users.put", "api.users.put"}, id \in Users,
     n \in {Undefined, "cy"}, a \in {Undefined, "str:3"}}
  \cup {[NoReq EXCEPT !.op = op, !.principal = 2, !.id = id] :
          op \in {"users.delete", "api.users.delete"}, id \in Users}
  \cup {[NoReq EXCEPT !.op = op, !.principal = 2, !.user_id = 1] :
          op \in {"contacts.list", "api.contacts.list"}}
  \cup {[ContactRequest(op, 1, 1, n, <<>>) EXCEPT !.is_emergency = e] :
          op \in {"contacts.put", "api.contacts.put"},
          n \in {Undefined, "x"}, e \in {Undefined, "bool:true"}}
  \cup {PhoneRequest(op, 1, id, 1, v, t) :
          op \in {"phones.put", "api.phone.put"}, id \in {1, 2},
          v \in {Undefined, "bool:true", "bool:false"}, t \in {Undefined, "work"}}
  \cup {ContactRequest("contacts.post", 2, 0, "b", <<>>),
        [ContactRequest("api.contacts.post", 2, 0, "b", <<>>) EXCEPT !.user_id = 1]}
  \cup {[NoReq EXCEPT !.op = op, !.name = "cy"] :
          op \in {"auth.register", "api.users.register"}}

\* One request at a time.
NextUsers ==
  LET p == 1
  IN  \/ \E r \in UserRequests : nreq < MaxUserReqs /\ Start(p, r)
      \/ UsersPut_Update(p)
      \/ ApiUsersPut_Update(p)
      \/ UsersDelete_Check(p)
      \/ UsersDelete_Contacts(p)
      \/ UsersDelete_User(p)
      \/ ApiUsersDelete_Contacts(p)
      \/ ApiUsersDelete_User(p)
      \/ ContactsList_Check(p)
      \/ ApiContactsList_Contacts(p)
      \/ ApiContactsList_Phones(p)
      \/ ContactsPut_Check(p)
      \/ ContactsPut_Update(p)
      \/ ApiContactsPut_Update(p)
      \/ PhoneNumbersPut_Check(p)
      \/ PhoneNumbersPut_Unset(p)
      \/ PhoneNumbersPut_Update(p)
      \/ ApiPhonePut_Select(p)
      \/ ApiPhonePut_Unset(p)
      \/ ApiPhonePut_Update(p)
      \/ ContactsPost_InsertContact(p)
      \/ ContactsPost_Select(p)
      \/ ApiContactsPost_InsertContact(p)
      \/ ApiContactsPost_Select(p)
      \/ AuthRegister_Check(p)
      \/ AuthRegister_Insert(p)
      \/ ApiUsersRegister_Insert(p)
      \/ Transaction_Commit(p)
      \/ Transaction_Rollback(p)

SpecUsers == InitTwoPhones /\ [][NextUsers]_vars

\* Visitors register concurrently, on either stack, under a name that is
\* taken ("ann") or free.
NextRegister ==
  \E p \in Procs :
    \/ \E op \in {"auth.register", "api.users.register"}, n \in {"ann", "cy", "dee"} :
         /\ nreq < MaxRegisterReqs
         /\ Start(p, [NoReq EXCEPT !.op = op, !.name = n])
    \/ AuthRegister_Check(p)
    \/ AuthRegister_Insert(p)
    \/ ApiUsersRegister_Insert(p)

SpecRegister == InitEmpty /\ [][NextRegister]_vars

\* C31: an updateProfile (with at least one field to update), deleteUser or
\* listByUser request that names a user other than the principal is
\* answered 403, carries no data of that user and has written no row.
C31_OtherUserForbidden ==
  \A p \in Procs :
    LET r == req[p]
        target == IF r.op \in {"contacts.list", "api.contacts.list"}
                  THEN r.user_id ELSE r.id
    IN  (/\ pc[p] = "done"
         /\ r.op \in {"users.put", "api.users.put", "users.delete",
                      "api.users.delete", "contacts.list", "api.contacts.list"}
         /\ r.op \in {"users.put", "api.users.put"}
              => (Truthy(r.name) \/ r.age # Undefined)
         /\ target # 0
         /\ target # r.principal)
        => /\ resp[p].status = 403
           /\ resp[p].kind = "none"
           /\ loc[p].wrote = {}
           /\ loc[p].wroteUsers = {}
           /\ tx[p] = NoTx

\* C32: the INSERT of a contact stores the authenticated principal as its
\* user_id, no step changes the user_id of a stored contact, and no step
\* changes the contact_id of a stored phone number.
C32_OwnerSetOnceToPrincipal ==
  [][/\ \A p \in Procs :
          \A c \in DOMAIN tx'[p].ct \ DOMAIN tx[p].ct :
            c \notin DOMAIN contacts => tx'[p].ct[c].user_id = req[p].principal
     /\ \A c \in DOMAIN contacts' :
          contacts'[c].user_id = IF c \in DOMAIN contacts
                                 THEN contacts[c].user_id ELSE owner[c]
     /\ \A i \in DOMAIN phones' \cap DOMAIN phones :
          phones'[i].contact_id = phones[i].contact_id
     /\ \A p \in Procs :
          \A i \in DOMAIN tx'[p].ph \cap DOMAIN phones :
            tx'[p].ph[i].contact_id = phones[i].contact_id]_vars

\* C33: with one request at a time, the step that completes an update of
\* a user, a contact or a phone number leaves every row of the other tables
\* and every other row of its table as it was (for a phone-number update,
\* but for other numbers of the same contact losing is_primary), and in the
\* target row every column whose field is absent from the payload keeps its
\* value.
C33_PartialUpdate ==
  [][\A p \in Procs :
       LET r == req[p]
           ends == pc[p] # "done" /\ pc'[p] = "done"
       IN  /\ (ends /\ r.op \in {"users.put", "api.users.put"})
              => /\ <<users, contacts, phones>>' = <<users, contacts, phones>>
                 /\ \A u \in users :
                      /\ u # r.id => profiles'[u] = profiles[u]
                      /\ r.name = Undefined => profiles'[u].name = profiles[u].name
                      /\ r.age = Undefined => profiles'[u].age = profiles[u].age
           /\ (ends /\ r.op \in {"contacts.put", "api.contacts.put"})
              => /\ <<users, profiles, phones>>' = <<users, profiles, phones>>
                 /\ DOMAIN contacts' = DOMAIN contacts
                 /\ \A c \in DOMAIN contacts :
                      /\ c # r.id => contacts'[c] = contacts[c]
                      /\ contacts'[c].user_id = contacts[c].user_id
                      /\ r.name = Undefined => contacts'[c].name = contacts[c].name
                      /\ r.is_emergency = Undefined
                           => contacts'[c].is_emergency = contacts[c].is_emergency
           /\ (ends /\ r.op \in {"phones.put", "api.phone.put"})
              => /\ <<users, profiles, contacts>>' = <<users, profiles, contacts>>
                 /\ DOMAIN phones' = DOMAIN phones
                 /\ \A i \in DOMAIN phones :
                      /\ phones'[i].contact_id = phones[i].contact_id
                      /\ phones'[i].phone_type # phones[i].phone_type
                           => (i = r.id /\ r.phone_type # Undefined)
                      /\ phones'[i].is_primary # phones[i].is_primary
                           => \/ i = r.id /\ r.is_primary # Undefined
                              \/ /\ i # r.id
                                 /\ r.id \in DOMAIN phones
                                 /\ phones[i].contact_id = phones[r.id].contact_id
                                 /\ r.is_primary # Undefined
                                 /\ phones[i].is_primary]_vars

\* User 2 sent an update of their own row with the age alone: the row has
\* the new age and the name it had.
C33_Witness ==
  \E p \in Procs :
    /\ pc[p] = "done"
    /\ req[p].op = "users.put" /\ req[p].id = 2
    /\ req[p].name = Undefined /\ req[p].age = "str:3"
    /\ resp[p].status = 200
    /\ 2 \in users
    /\ profiles[2] = [name |-> "bob", age |-> 3]

\* C34: no two stored users have the same name (so a register under a
\* name that is taken has created no row).
C34_UniqueNames ==
  \A u \in users, v \in users :
    u # v => profiles[u].name # profiles[v].name

\* C35: a request of a transactional mutation has been answered with a
\* success status only once its transaction has committed: the handler has
\* finished, no error was raised and no write of it is still uncommitted.
C35_SuccessAfterCommit ==
  \A p \in Procs :
    (/\ req[p].op \in {"contacts.post", "phones.post", "phones.put",
                       "contacts.delete", "users.delete",
                       "api.contacts.post", "api.phone.post", "api.phone.put",
                       "api.contacts.delete", "api.users.delete"}
     /\ resp[p].status \in {200, 201, 204})
    => /\ pc[p] = "done"
       /\ loc[p].err = "none"
       /\ tx[p] = NoTx

\* C36: no request has had a second response sent for it.
C36_OneResponse ==
  \A p \in Procs : loc[p].again = 0

\* C37: in a phone-number create or update whose payload has an is_primary
\* value, the handler takes the clearing branch exactly when the value the
\* store writes to the target row is true, and the target row is stored with
\* that value.
C37_GuardAgreesWithValue ==
  [][\A p \in Procs :
       LET r == req'[p]
           clearing == {"phones.post:unset", "phones.put:unset",
                        "api.phone.post:unset", "api.phone.put:select"}
           storing == {"phones.post:insert", "phones.put:update",
                       "api.phone.post:insert", "api.phone.put:update"}
           present == r.op \in PhoneCreates \cup PhoneUpdates /\ r.is_primary # Undefined
       IN  /\ (/\ present
               /\ pc[p] \notin clearing \cup storing \cup {"api.phone.put:unset"}
               /\ pc'[p] \in clearing \cup storing)
              => (pc'[p] \in clearing <=> PgBool(r.is_primary))
           /\ (present /\ pc[p] \in storing /\ pc'[p] = "commit")
              => \A t \in Target(p)' \cap DOMAIN tx'[p].ph :
                   tx'[p].ph[t].is_primary = PgBool(r.is_primary)]_vars
====
